---- MODULE Spec2Model ----
(***************************************************************************)
(* EC800XStableTransmission (src/ec800x_test.py): one foreground thread    *)
(* (main / run_stable_transmission_test / cleanup, or a caller of          *)
(* send_data_packet) and the daemon monitor thread started by              *)
(* start_channel_monitoring, sharing one session object and one serial     *)
(* port.  Every send_at_command_raw call is two steps: the command write   *)
(* and the end of the reply wait.  The modem's replies are inputs.         *)
(***************************************************************************)
EXTENDS Integers, Sequences, FiniteSets, TLC

\* ---- bounds of the model ------------------------------------------------
MaxCycles == 1          \* cycles of run_stable_transmission_test
MaxSeq == 2             \* generate_data_packet is not entered once the counter reached this
MaxCalls == 2           \* direct send_data_packet calls of the API caller

\* ---- inputs ---------------------------------------------------------------
Threads == {"fg", "mon"}
RssiVals == {10, 20}             \* signal levels the modem reports
CregStats == {0, 1}              \* <stat> values of +CREG: n,stat
NoReply == 0 - 1                    \* reply without the expected field
PacketLen == 4                      \* len(packet) of the caller's packet

VARIABLES
    ser_open,              \* self.ser and self.ser.is_open
    is_connected, pdp_context_active, tcp_connected,
    monitor_active, monitor_thread,
    channel_state,         \* quality_score, signal_strength
    transmission_stats,
    transmission_config,
    data_queue,
    sequence_counter,
    pc, stack,             \* position and return labels of each thread
    xch,                   \* state of the thread's current send_at_command_raw call
    ret,                   \* boolean returned by the last call
    quality_report,        \* local quality_report of assess_channel_quality
    sensor_data,           \* argument of send_sensor_data
    sequence,              \* local of generate_data_packet
    seq_tmp,               \* value loaded by self.sequence_counter += 1
    tcp_attempt,           \* loop variable of establish_tcp_connection
    wait_time,             \* establish_tcp_connection: the sleep before the attempt, 0 for none
    net_attempt, sm_i, cycle,
    cycles,                \* argument of run_stable_transmission_test
    at,                    \* arguments and locals of a send_at_command_raw call
    sdp,                   \* locals of send_data_packet
    issued,                \* history: sequence numbers in the order they were taken
    call,                  \* history: the thread's last send_sensor_data call
    tick,                  \* history: what the current monitor tick saw and removed
    calls,                 \* number of direct send_data_packet calls made
    sdp_hist,              \* history: the last send_data_packet call
    loops,                 \* the monitor_loop threads of a caller that starts and stops
                           \* monitoring more than once, in the order they were created
    built,                 \* history: what each generate_data_packet call of a caller built
    seen                   \* history: per thread, the AT+CSQ response until the next reply is
                           \* read, and the report of the caller's previous assessment

conn == <<ser_open, is_connected, pdp_context_active, tcp_connected>>
mon_vars == <<monitor_active, monitor_thread, loops>>
shared == <<channel_state, transmission_stats, transmission_config, data_queue, sequence_counter>>
ctl == <<pc, stack, xch, ret>>
locals == <<quality_report, sensor_data, sequence, seq_tmp, tcp_attempt, wait_time, net_attempt, sm_i, cycle,
            cycles, at, sdp>>
hist == <<issued, call, tick, calls, sdp_hist, built, seen>>
vars == <<conn, mon_vars, shared, ctl, locals, hist>>

\* ---- replies and their parsing ---------------------------------------------
\* a reply is the sequence of its lines; a line is the echo of the command, a
\* blank line, a final OK or ERROR, or an answer line "name a,b"
Echo == [kind |-> "echo", a |-> 0, b |-> 0]
Blank == [kind |-> "blank", a |-> 0, b |-> 0]
OkLine == [kind |-> "OK", a |-> 0, b |-> 0]
ErrorLine == [kind |-> "ERROR", a |-> 0, b |-> 0]
Line(name, a, b) == [kind |-> name, a |-> a, b |-> b]

\* _clean_at_response: blank lines and echo lines are dropped
CleanAtResponse(reply) == SelectSeq(reply, LAMBDA l : l.kind \notin {"blank", "echo"})

\* what send_at_command_raw can read for a query answered by "name a,b": the
\* full reply, with or without echo; the answer line alone, when the wait of
\* lines 188-196 ends before the OK has come; an error reply
Shapes == {"full", "echoed", "cut", "error"}

Reply(shape, name, a, b) ==
    CASE shape = "full" -> <<Blank, Line(name, a, b), Blank, OkLine>>
      [] shape = "echoed" -> <<Echo, Blank, Line(name, a, b), Blank, OkLine>>
      [] shape = "cut" -> <<Blank, Line(name, a, b)>>
      [] OTHER -> <<Blank, ErrorLine>>

\* what the call returns: the cleaned reply, or "" when nothing was written
Response(answered, shape, name, a, b) ==
    IF answered THEN CleanAtResponse(Reply(shape, name, a, b)) ELSE <<>>

\* check_response_ok: "OK" occurs in the response
CheckResponseOk(response) == \E i \in 1..Len(response) : response[i].kind = "OK"

\* name in response
Has(response, name) == \E i \in 1..Len(response) : response[i].kind = name

\* response.split(name)[1].split(","): the text up to the comma, and the text
\* after it, which runs to the end of the response
Parts(response, name) ==
    LET i == CHOOSE k \in 1..Len(response) :
                 response[k].kind = name /\ \A j \in 1..(k - 1) : response[j].kind # name
    IN << <<response[i].a>>, <<response[i].b>> \o SubSeq(response, i + 1, Len(response)) >>

ValueError == 0 - 2

\* int(part.strip()): the number, when the part holds a number and nothing else
IntOf(part) == IF Len(part) = 1 THEN part[1] ELSE ValueError

\* lines 449-451 of assess_channel_quality: rssi, once rssi and ber are both read
ParseCsq(response) ==
    LET parts == Parts(response, "+CSQ:")
        rssi == IntOf(parts[1])
        ber == IntOf(parts[2])
    IN IF rssi = ValueError \/ ber = ValueError THEN ValueError ELSE rssi

\* lines 302-303 of setup_module: the first field alone
ParseSignalPart(response) == IntOf(Parts(response, "+CSQ:")[1])

\* lines 475-479 of assess_channel_quality: stat, once n and stat are both read
ParseCreg(response) ==
    LET parts == Parts(response, "+CREG:")
        n == IntOf(parts[1])
        stat == IntOf(parts[2])
    IN IF n = ValueError \/ stat = ValueError THEN ValueError ELSE stat

\* ---- pure functions -------------------------------------------------------

\* int((rssi / 31) * 100), 0 for the unknown level 99
SignalQuality(rssi) == IF rssi = 99 THEN 0
                       ELSE IF (rssi * 100) \div 31 < 100 THEN (rssi * 100) \div 31 ELSE 100

\* status_map.get(stat, ...) reduced to the class the score looks at
StatusMap(stat) == CASE stat = 1 \/ stat = 5 -> "registered"
                     [] stat = 0 \/ stat = 2 -> "unregistered"
                     [] stat = 3 -> "denied"
                     [] OTHER -> "unknown_stat"

\* the network part weighted a second time: 30% of 30, 10 and 20
NetworkPointsMutant(network_status) ==
    IF network_status \in {"registered", "attached"} THEN 9
    ELSE IF network_status \in {"unregistered", "unattached"} THEN 3
    ELSE 6

\* lines 549-555
NetworkPoints(network_status) ==
    IF network_status \in {"registered", "attached"} THEN 30
    ELSE IF network_status \in {"unregistered", "unattached"} THEN 10
    ELSE 20

\* min(int(signal_quality*0.5 + points + success_rate*0.2), 100); success_rate
\* is kept as the fraction 100*num/den it was computed from
CalculateChannelQualityScore(signal_quality, network_status, stats) ==
    LET n == stats.success_rate[1]
        d == stats.success_rate[2]
        hist2 == IF stats.total_packets > 0 THEN 40 * n ELSE 0
        s == (signal_quality * d + 2 * NetworkPoints(network_status) * d + hist2) \div (2 * d)
    IN IF s < 100 THEN s ELSE 100

\* the boundary scores 80, 60 and 40 put in the lower tier
StabilityMutant(score) == IF score > 80 THEN "excellent"
                          ELSE IF score > 60 THEN "good"
                          ELSE IF score > 40 THEN "fair"
                          ELSE "poor"

\* lines 514-529: the tier and the recommended action of a score
Stability(score) == IF score >= 80 THEN "excellent"
                    ELSE IF score >= 60 THEN "good"
                    ELSE IF score >= 40 THEN "fair"
                    ELSE "poor"

RecommendedAction(score) == IF score >= 60 THEN "transmit"
                            ELSE IF score >= 40 THEN "small_packets"
                            ELSE "wait"

\* _adjust_transmission_parameters: the preset chosen from signal_quality
AdjustTransmissionParameters(config, signal_quality) ==
    IF signal_quality >= 80 THEN [config EXCEPT !.packet_size = 2048, !.max_retries = 3]
    ELSE IF signal_quality >= 60 THEN [config EXCEPT !.packet_size = 1024, !.max_retries = 5]
    ELSE IF signal_quality >= 40 THEN [config EXCEPT !.packet_size = 512, !.max_retries = 8]
    ELSE [config EXCEPT !.packet_size = 256, !.max_retries = 10]

NewReport == [signal_strength |-> 0, signal_quality |-> 0, network_status |-> "unknown",
              quality_score |-> NoReply, stability |-> "none", recommended_action |-> "none"]
NoReport == [signal_strength |-> 0, signal_quality |-> 0, network_status |-> "none",
             quality_score |-> NoReply, stability |-> "none", recommended_action |-> "none"]
NoSeen == [csq |-> <<>>, prev |-> NoReport]
NoCall == [data |-> 0, low |-> FALSE, outcome |-> "none", caller |-> "none"]
NoTick == [nonempty |-> FALSE, above50 |-> FALSE, removed |-> 0, checked |-> FALSE]
NoSdp == [attempt |-> 0, max_retries |-> 0, wait_time |-> 0]
NoAt == [n |-> 0, timeout |-> 0, elapsed |-> 0, chunks |-> 0, marker |-> FALSE,
         writes |-> 0, response |-> "none"]
NoHist == [active |-> FALSE, before |-> <<0, 0, 0, 0, 0>>, max_retries |-> 0,
           failures |-> 0, result |-> "none"]

Count(q, r) == Cardinality({i \in 1..Len(q) : q[i] = r})

\* ---- control helpers --------------------------------------------------------
Goto(t, l) == pc' = [pc EXCEPT ![t] = l]
Return(t, v) == /\ pc' = [pc EXCEPT ![t] = Head(stack[t])]
                /\ stack' = [stack EXCEPT ![t] = Tail(@)]
                /\ ret' = [ret EXCEPT ![t] = v]
EndExchange(t) == xch' = [xch EXCEPT ![t] = "idle"]
\* the call got a reply: the command was written and the port is still open
Answered(t) == xch[t] = "sent" /\ ser_open
OkReplies(t) == IF Answered(t) THEN BOOLEAN ELSE {FALSE}

ExchangeSites == {"at", "sm", "apn", "act", "deact", "react", "actq", "tcp_close", "tcp_open",
                  "csq", "creg", "cgatt", "hc_act", "hc_state", "rc_close",
                  "qisend", "qistatus", "cl_close"}

\* the thread has a command exchange in flight, or is between the '>' prompt of
\* a packet send and the end of the status query that follows it
InExchange(t) == xch[t] = "sent" \/ pc[t] = "pkt_write" \/ (pc[t] = "qistatus" /\ xch[t] = "idle")

\* ---- send_at_command_raw -----------------------------------------------------
\* lines 168-182: nothing is written and "" is returned when the port is not
\* open; otherwise the command is written and the reply wait starts
SendAtCommandRaw(t) ==
    /\ pc[t] \in ExchangeSites
    /\ xch[t] = "idle"
    /\ xch' = [xch EXCEPT ![t] = IF ser_open THEN "sent" ELSE "closed"]
    /\ UNCHANGED <<conn, mon_vars, shared, pc, stack, ret, locals, hist>>

\* ---- assess_channel_quality ---------------------------------------------------
\* the call: a fresh quality_report, then the AT+CSQ exchange
CallAssess(t, retlabels) ==
    /\ pc' = [pc EXCEPT ![t] = "csq"]
    /\ stack' = [stack EXCEPT ![t] = retlabels]
    /\ quality_report' = [quality_report EXCEPT ![t] = NewReport]

\* lines 445-469: the AT+CSQ reply of one of the shapes, "+CSQ: a,b" with a
\* from levels and b from bers; the level is stored when the response has
\* "+CSQ:" and lines 449-451 raise nothing
CsqReplyOn(t, shapes, levels, bers) ==
    /\ pc[t] = "csq" /\ xch[t] # "idle"
    /\ \E shape \in shapes, a \in levels, b \in bers :
         LET response == Response(Answered(t), shape, "+CSQ:", a, b)
             rssi == IF Has(response, "+CSQ:") THEN ParseCsq(response) ELSE ValueError
         IN /\ IF rssi # ValueError
               THEN /\ channel_state' = [channel_state EXCEPT !.signal_strength = rssi]
                    /\ quality_report' = [quality_report EXCEPT
                                             ![t].signal_strength = rssi,
                                             ![t].signal_quality = SignalQuality(rssi)]
               ELSE UNCHANGED <<channel_state, quality_report>>
            /\ seen' = [seen EXCEPT ![t].csq = response]
    /\ Goto(t, "creg") /\ EndExchange(t)
    /\ UNCHANGED <<conn, mon_vars, transmission_stats, transmission_config, data_queue,
                   sequence_counter, stack, ret, sensor_data, sequence, seq_tmp, tcp_attempt, wait_time,
                   net_attempt, sm_i, cycle, cycles, at, sdp, issued, call, tick, calls, sdp_hist,
                   built>>

CsqReply(t) == CsqReplyOn(t, {"full", "cut"}, RssiVals, {0})

\* lines 473-496: the AT+CREG? reply "+CREG: 0,b" with b from stats; the
\* status is stored when the response has "+CREG:" and lines 475-479 raise
\* nothing
CregReplyOn(t, stats) ==
    /\ pc[t] = "creg" /\ xch[t] # "idle"
    /\ \E shape \in Shapes, b \in stats :
         LET response == Response(Answered(t), shape, "+CREG:", 0, b)
             stat == IF Has(response, "+CREG:") THEN ParseCreg(response) ELSE ValueError
         IN IF stat # ValueError
            THEN quality_report' = [quality_report EXCEPT ![t].network_status = StatusMap(stat)]
            ELSE UNCHANGED quality_report
    /\ seen' = [seen EXCEPT ![t].csq = <<>>]
    /\ Goto(t, "cgatt") /\ EndExchange(t)
    /\ UNCHANGED <<conn, mon_vars, shared, stack, ret, sensor_data, sequence, seq_tmp,
                   tcp_attempt, wait_time, net_attempt, sm_i, cycle, cycles, at, sdp, issued, call, tick, calls, sdp_hist,
                   built>>

CregReply(t) == CregReplyOn(t, CregStats)

\* lines 500-534: the attachment reply, then the score, the tier and the return
CgattReply(t) ==
    /\ pc[t] = "cgatt" /\ xch[t] # "idle"
    /\ \E att \in (IF Answered(t) THEN {0, 1, NoReply} ELSE {NoReply}) :
         LET ns == IF att = 1 THEN "attached"
                   ELSE IF att = 0 THEN "unattached"
                   ELSE quality_report[t].network_status
             score == CalculateChannelQualityScore(quality_report[t].signal_quality, ns,
                                                   transmission_stats)
         IN /\ quality_report' = [quality_report EXCEPT ![t].network_status = ns,
                                                         ![t].quality_score = score,
                                                         ![t].stability = Stability(score),
                                                         ![t].recommended_action = RecommendedAction(score)]
            /\ channel_state' = [channel_state EXCEPT !.quality_score = score]
    /\ pc' = [pc EXCEPT ![t] = Head(stack[t])]
    /\ stack' = [stack EXCEPT ![t] = Tail(@)]
    /\ EndExchange(t)
    /\ UNCHANGED <<conn, mon_vars, transmission_stats, transmission_config, data_queue,
                   sequence_counter, ret, sensor_data, sequence, seq_tmp, tcp_attempt, wait_time,
                   net_attempt, sm_i, cycle, cycles, at, sdp, hist>>

\* ---- send_sensor_data -----------------------------------------------------------
\* lines 686-689: signal_quality below 30: the record is queued, False returned
SsdDefer(t) ==
    /\ pc[t] = "ssd_check"
    /\ quality_report[t].signal_quality < 30
    /\ data_queue' = Append(data_queue, sensor_data[t])
    /\ call' = [call EXCEPT ![t] = [data |-> sensor_data[t], low |-> quality_report[t].quality_score < 30,
                                    outcome |-> "deferred", caller |-> Head(stack[t])]]
    /\ Return(t, FALSE)
    /\ quality_report' = [quality_report EXCEPT ![t] = NoReport]
    /\ sensor_data' = [sensor_data EXCEPT ![t] = IF t = "fg" THEN @ ELSE 0]
    /\ UNCHANGED <<conn, mon_vars, channel_state, transmission_stats, transmission_config,
                   sequence_counter, xch, sequence, seq_tmp, tcp_attempt, wait_time, net_attempt, sm_i,
                   cycle, cycles, at, sdp, issued, tick, calls, sdp_hist, built, seen>>

\* lines 691-692: otherwise the profile is replaced and the packet is built
SsdAdjust(t) ==
    /\ pc[t] = "ssd_check"
    /\ quality_report[t].signal_quality >= 30
    /\ transmission_config' = AdjustTransmissionParameters(transmission_config,
                                                           quality_report[t].signal_quality)
    /\ call' = [call EXCEPT ![t] = [data |-> sensor_data[t], low |-> quality_report[t].quality_score < 30,
                                    outcome |-> "building", caller |-> Head(stack[t])]]
    /\ Goto(t, "gen_read")
    /\ UNCHANGED <<conn, mon_vars, channel_state, transmission_stats, data_queue,
                   sequence_counter, stack, xch, ret, locals, issued, tick, calls, sdp_hist, built, seen>>

\* ---- generate_data_packet ---------------------------------------------------------
\* line 570: sequence = self.sequence_counter
GenRead(t) ==
    /\ pc[t] = "gen_read"
    /\ sequence_counter < MaxSeq
    /\ sequence' = [sequence EXCEPT ![t] = sequence_counter]
    /\ issued' = Append(issued, sequence_counter)
    /\ Goto(t, "gen_load")
    /\ UNCHANGED <<conn, mon_vars, shared, stack, xch, ret, quality_report, sensor_data,
                   seq_tmp, tcp_attempt, wait_time, net_attempt, sm_i, cycle, cycles, at, sdp, call, tick, calls, sdp_hist, built, seen>>

\* line 571, first half: the value of self.sequence_counter is loaded
GenLoad(t) ==
    /\ pc[t] = "gen_load"
    /\ seq_tmp' = [seq_tmp EXCEPT ![t] = sequence_counter]
    /\ Goto(t, "gen_store")
    /\ UNCHANGED <<conn, mon_vars, shared, stack, xch, ret, quality_report, sensor_data,
                   sequence, tcp_attempt, wait_time, net_attempt, sm_i, cycle, cycles, at, sdp, hist>>

\* (RaiseMutant: an exception raised in the monitor thread ends its loop)
\* what the thread's exception handler does with an exception raised inside
\* send_sensor_data: main's except/finally runs cleanup (lines 1070-1076), the
\* monitor loop's except goes on to the sleep (lines 793-797)
RaiseMutant(t) ==
    /\ pc' = [pc EXCEPT ![t] = IF t = "fg" THEN "cl_start" ELSE "m_done"]
    /\ stack' = [stack EXCEPT ![t] = <<>>]

Raise(t) ==
    /\ pc' = [pc EXCEPT ![t] = IF t = "fg" THEN "cl_start" ELSE "m_loop"]
    /\ stack' = [stack EXCEPT ![t] = <<>>]

\* line 571, second half, and lines 574-590: the counter is stored; the digest
\* is hashlib.md5(...).hexdigest(), a str, and struct.pack('!II', sequence, crc32)
\* raises struct.error for it: the call never returns a packet
GenStore(t) ==
    /\ pc[t] = "gen_store"
    /\ sequence_counter' = seq_tmp[t] + 1
    /\ Raise(t)
    /\ call' = [call EXCEPT ![t].outcome = "raised"]
    /\ quality_report' = [quality_report EXCEPT ![t] = NoReport]
    /\ sensor_data' = [sensor_data EXCEPT ![t] = 0]
    /\ sequence' = [sequence EXCEPT ![t] = NoReply]
    /\ seq_tmp' = [seq_tmp EXCEPT ![t] = NoReply]
    /\ UNCHANGED <<conn, mon_vars, channel_state, transmission_stats, transmission_config,
                   data_queue, xch, ret, tcp_attempt, wait_time, net_attempt, sm_i, cycle, cycles, at, sdp,
                   issued, tick, calls, sdp_hist, built, seen>>

\* ---- establish_tcp_connection ---------------------------------------------------
CallEstablish(t, retlabels) ==
    /\ pc' = [pc EXCEPT ![t] = "tcp_close"]
    /\ stack' = [stack EXCEPT ![t] = retlabels]
    /\ tcp_attempt' = [tcp_attempt EXCEPT ![t] = 0]
    /\ wait_time' = [wait_time EXCEPT ![t] = 0]

\* line 400: the reply of AT+QICLOSE is not looked at
TcpCloseReply(t) ==
    /\ pc[t] = "tcp_close" /\ xch[t] # "idle"
    /\ Goto(t, "tcp_open") /\ EndExchange(t)
    /\ UNCHANGED <<conn, mon_vars, shared, stack, ret, locals, hist>>

\* the wait before the next attempt is that of setup_network_connection
TcpOpenReplyMutant(t) ==
    /\ pc[t] = "tcp_open" /\ xch[t] # "idle"
    /\ EndExchange(t)
    /\ \E ok \in OkReplies(t) :
         IF ok
         THEN /\ tcp_connected' = TRUE
              /\ Return(t, TRUE)
              /\ tcp_attempt' = [tcp_attempt EXCEPT ![t] = 0]
              /\ wait_time' = [wait_time EXCEPT ![t] = 0]
         ELSE /\ UNCHANGED tcp_connected
              /\ IF tcp_attempt[t] < 2
                 THEN /\ Goto(t, "tcp_close")
                      /\ tcp_attempt' = [tcp_attempt EXCEPT ![t] = @ + 1]
                      /\ wait_time' = [wait_time EXCEPT ![t] = (tcp_attempt[t] + 1) * 3]
                      /\ UNCHANGED <<stack, ret>>
                 ELSE /\ Return(t, FALSE)
                      /\ tcp_attempt' = [tcp_attempt EXCEPT ![t] = 0]
                      /\ wait_time' = [wait_time EXCEPT ![t] = 0]
    /\ UNCHANGED <<ser_open, is_connected, pdp_context_active, mon_vars, shared,
                   quality_report, sensor_data, sequence, seq_tmp, net_attempt, sm_i, cycle, cycles, at,
                   sdp, hist>>

\* lines 406-425: the reply of AT+QIOPEN; after a failed attempt that is not
\* the last, time.sleep((attempt + 1) * 5)
TcpOpenReply(t) ==
    /\ pc[t] = "tcp_open" /\ xch[t] # "idle"
    /\ EndExchange(t)
    /\ \E ok \in OkReplies(t) :
         IF ok
         THEN /\ tcp_connected' = TRUE
              /\ Return(t, TRUE)
              /\ tcp_attempt' = [tcp_attempt EXCEPT ![t] = 0]
              /\ wait_time' = [wait_time EXCEPT ![t] = 0]
         ELSE /\ UNCHANGED tcp_connected
              /\ IF tcp_attempt[t] < 2
                 THEN /\ Goto(t, "tcp_close")
                      /\ tcp_attempt' = [tcp_attempt EXCEPT ![t] = @ + 1]
                      /\ wait_time' = [wait_time EXCEPT ![t] = (tcp_attempt[t] + 1) * 5]
                      /\ UNCHANGED <<stack, ret>>
                 ELSE /\ Return(t, FALSE)
                      /\ tcp_attempt' = [tcp_attempt EXCEPT ![t] = 0]
                      /\ wait_time' = [wait_time EXCEPT ![t] = 0]
    /\ UNCHANGED <<ser_open, is_connected, pdp_context_active, mon_vars, shared,
                   quality_report, sensor_data, sequence, seq_tmp, net_attempt, sm_i, cycle, cycles, at,
                   sdp, hist>>

\* ---- monitor_loop ------------------------------------------------------------------
\* a loop that does not read monitor_active: while True
MonitorTickMutant ==
    /\ pc["mon"] = "m_loop"
    /\ CallAssess("mon", <<"m_health">>)
    /\ tick' = NoTick
    /\ call' = [call EXCEPT !["mon"] = NoCall]
    /\ ret' = [ret EXCEPT !["mon"] = FALSE]
    /\ UNCHANGED <<conn, mon_vars, shared, xch, sensor_data, sequence, seq_tmp, tcp_attempt, wait_time,
                   net_attempt, sm_i, cycle, cycles, at, sdp, issued, calls, sdp_hist, built, seen>>

\* lines 772-775 and 797: the sleep, the loop condition, the start of a tick
MonitorTick ==
    /\ pc["mon"] = "m_loop"
    /\ IF monitor_active
       THEN CallAssess("mon", <<"m_health">>)
       ELSE /\ pc' = [pc EXCEPT !["mon"] = "m_done"]
            /\ UNCHANGED <<stack, quality_report>>
    /\ tick' = NoTick
    /\ call' = [call EXCEPT !["mon"] = NoCall]
    /\ ret' = [ret EXCEPT !["mon"] = FALSE]
    /\ UNCHANGED <<conn, mon_vars, shared, xch, sensor_data, sequence, seq_tmp, tcp_attempt, wait_time,
                   net_attempt, sm_i, cycle, cycles, at, sdp, issued, calls, sdp_hist, built, seen>>

\* the health check is left out while the logical connection is marked closed
MonitorHealthMutant ==
    /\ pc["mon"] = "m_health"
    /\ Goto("mon", IF is_connected /\ tcp_connected THEN "hc_act" ELSE "m_queue")
    /\ quality_report' = [quality_report EXCEPT !["mon"] = NoReport]
    /\ UNCHANGED <<conn, mon_vars, shared, stack, xch, ret, sensor_data, sequence, seq_tmp,
                   tcp_attempt, wait_time, net_attempt, sm_i, cycle, cycles, at, sdp, hist>>

\* line 778: is_connected decides whether the health check runs
MonitorHealth ==
    /\ pc["mon"] = "m_health"
    /\ Goto("mon", IF is_connected THEN "hc_act" ELSE "m_queue")
    /\ quality_report' = [quality_report EXCEPT !["mon"] = NoReport]
    /\ UNCHANGED <<conn, mon_vars, shared, stack, xch, ret, sensor_data, sequence, seq_tmp,
                   tcp_attempt, wait_time, net_attempt, sm_i, cycle, cycles, at, sdp, hist>>

\* check_connection_health, lines 806-809
HcActReply ==
    /\ pc["mon"] = "hc_act" /\ xch["mon"] # "idle"
    /\ \E ok \in OkReplies("mon") : Goto("mon", IF ok THEN "hc_state" ELSE "rc_close")
    /\ EndExchange("mon")
    /\ UNCHANGED <<conn, mon_vars, shared, stack, ret, locals, hist>>

\* check_connection_health, lines 812-817
HcStateReply ==
    /\ pc["mon"] = "hc_state" /\ xch["mon"] # "idle"
    /\ \E ok \in OkReplies("mon") : Goto("mon", IF ok THEN "m_queue" ELSE "rc_close")
    /\ EndExchange("mon")
    /\ UNCHANGED <<conn, mon_vars, shared, stack, ret, locals, hist>>

\* a recovery that also marks the network as detached
RcCloseReplyMutant ==
    /\ pc["mon"] = "rc_close" /\ xch["mon"] # "idle"
    /\ tcp_connected' = FALSE
    /\ is_connected' = FALSE
    /\ CallEstablish("mon", <<"m_queue">>)
    /\ EndExchange("mon")
    /\ UNCHANGED <<ser_open, pdp_context_active, mon_vars, shared, ret,
                   quality_report, sensor_data, sequence, seq_tmp, net_attempt, sm_i, cycle, cycles, at,
                   sdp, hist>>

\* recover_connection, lines 829-834: close, mark not connected, reconnect
RcCloseReply ==
    /\ pc["mon"] = "rc_close" /\ xch["mon"] # "idle"
    /\ tcp_connected' = FALSE
    /\ CallEstablish("mon", <<"m_queue">>)
    /\ EndExchange("mon")
    /\ UNCHANGED <<ser_open, is_connected, pdp_context_active, mon_vars, shared, ret,
                   quality_report, sensor_data, sequence, seq_tmp, net_attempt, sm_i, cycle, cycles, at,
                   sdp, hist>>

\* a lower threshold than the code's: the score only has to be above 40
DequeueConditionMutant(queue, quality) == queue # <<>> /\ quality > 40

\* lines 783-785: the queue is not empty and the stored score is above 50
DequeueCondition(queue, quality) == queue # <<>> /\ quality > 50

\* lines 783-791: one item is taken when the condition holds, and
\* send_sensor_data is called on it; the result of recover_connection
\* (line 779) is dropped
MonitorQueue ==
    /\ pc["mon"] = "m_queue"
    /\ IF DequeueCondition(data_queue, channel_state.quality_score)
       THEN /\ data_queue' = Tail(data_queue)
            /\ sensor_data' = [sensor_data EXCEPT !["mon"] = Head(data_queue)]
            /\ CallAssess("mon", <<"ssd_check", "m_loop">>)
            /\ tick' = [nonempty |-> TRUE, above50 |-> channel_state.quality_score > 50,
                        removed |-> tick.removed + 1, checked |-> TRUE]
       ELSE /\ Goto("mon", "m_loop")
            /\ tick' = [nonempty |-> data_queue # <<>>, above50 |-> channel_state.quality_score > 50,
                        removed |-> tick.removed, checked |-> TRUE]
            /\ UNCHANGED <<data_queue, sensor_data, stack, quality_report>>
    /\ ret' = [ret EXCEPT !["mon"] = FALSE]
    /\ UNCHANGED <<conn, mon_vars, channel_state, transmission_stats, transmission_config,
                   sequence_counter, xch, sequence, seq_tmp, tcp_attempt, wait_time, net_attempt,
                   sm_i, cycle, cycles, at, sdp, issued, call, calls, sdp_hist, built, seen>>

\* ---- main / run_stable_transmission_test -------------------------------------------
\* the result of the open is ignored: the AT test follows in either case
InitSerialMutant ==
    /\ pc["fg"] = "main"
    /\ \E ok \in BOOLEAN :
         /\ ser_open' = ok
         /\ Goto("fg", "at")
    /\ UNCHANGED <<is_connected, pdp_context_active, tcp_connected, mon_vars, shared,
                   stack, xch, ret, locals, hist>>

\* init_serial, lines 120-135: the port opens or run_stable_transmission_test
\* returns False and main runs cleanup
InitSerial ==
    /\ pc["fg"] = "main"
    /\ \E ok \in BOOLEAN :
         /\ ser_open' = ok
         /\ Goto("fg", IF ok THEN "at" ELSE "cl_start")
    /\ UNCHANGED <<is_connected, pdp_context_active, tcp_connected, mon_vars, shared,
                   stack, xch, ret, locals, hist>>

\* test_at_command, lines 152-158, and lines 138-140, 873-875
AtReply ==
    /\ pc["fg"] = "at" /\ xch["fg"] # "idle"
    /\ \E ok \in OkReplies("fg") : Goto("fg", IF ok THEN "sm" ELSE "cl_start")
    /\ EndExchange("fg")
    /\ UNCHANGED <<conn, mon_vars, shared, stack, ret, locals, hist>>

\* setup_module: ATE0, five identity queries, five network queries; command 7
\* is AT+CSQ, whose value is stored (lines 300-305); the result is not fatal
SetupModuleReply ==
    /\ pc["fg"] = "sm" /\ xch["fg"] # "idle"
    /\ \E shape \in (IF sm_i = 7 THEN Shapes ELSE {"full"}),
          a \in (IF sm_i = 7 THEN RssiVals ELSE {0}) :
         LET response == Response(Answered("fg"), shape, "+CSQ:", a, 0)
             value == IF CheckResponseOk(response) /\ Has(response, "+CSQ:")
                      THEN ParseSignalPart(response) ELSE ValueError
         IN IF sm_i = 7 /\ value # ValueError
            THEN channel_state' = [channel_state EXCEPT !.signal_strength = value]
            ELSE UNCHANGED channel_state
    /\ IF sm_i < 10
       THEN /\ sm_i' = sm_i + 1 /\ UNCHANGED pc
       ELSE /\ sm_i' = 0 /\ Goto("fg", "apn")
    /\ EndExchange("fg")
    /\ UNCHANGED <<conn, mon_vars, transmission_stats, transmission_config, data_queue,
                   sequence_counter, stack, ret, quality_report, sensor_data, sequence, seq_tmp,
                   tcp_attempt, wait_time, net_attempt, cycle, cycles, at, sdp, hist>>

\* setup_network_connection, lines 330-334: the APN reply is only logged
ApnReply ==
    /\ pc["fg"] = "apn" /\ xch["fg"] # "idle"
    /\ Goto("fg", "act") /\ EndExchange("fg")
    /\ UNCHANGED <<conn, mon_vars, shared, stack, ret, locals, hist>>

\* an accepted activation that is not recorded in pdp_context_active
ActReplyMutant ==
    /\ pc["fg"] = "act" /\ xch["fg"] # "idle"
    /\ \E ok \in OkReplies("fg") : Goto("fg", IF ok THEN "actq" ELSE "deact")
    /\ EndExchange("fg")
    /\ UNCHANGED <<conn, mon_vars, shared, stack, ret, locals, hist>>

\* lines 338-346
ActReply ==
    /\ pc["fg"] = "act" /\ xch["fg"] # "idle"
    /\ \E ok \in OkReplies("fg") :
         /\ pdp_context_active' = (ok \/ pdp_context_active)
         /\ Goto("fg", IF ok THEN "actq" ELSE "deact")
    /\ EndExchange("fg")
    /\ UNCHANGED <<ser_open, is_connected, tcp_connected, mon_vars, shared, stack, ret,
                   locals, hist>>

\* line 346
DeactReply ==
    /\ pc["fg"] = "deact" /\ xch["fg"] # "idle"
    /\ Goto("fg", "react") /\ EndExchange("fg")
    /\ UNCHANGED <<conn, mon_vars, shared, stack, ret, locals, hist>>

\* a failed second activation is followed by one more deactivation
ReactReplyMutant ==
    /\ pc["fg"] = "react" /\ xch["fg"] # "idle"
    /\ \E ok \in OkReplies("fg") :
         /\ pdp_context_active' = (ok \/ pdp_context_active)
         /\ IF ok THEN Goto("fg", "actq") /\ UNCHANGED net_attempt
            ELSE IF net_attempt < 2 THEN Goto("fg", "deact") /\ net_attempt' = net_attempt + 1
            ELSE Goto("fg", "cl_start") /\ net_attempt' = 0
    /\ EndExchange("fg")
    /\ UNCHANGED <<ser_open, is_connected, tcp_connected, mon_vars, shared, stack, ret,
                   quality_report, sensor_data, sequence, seq_tmp, tcp_attempt, wait_time, sm_i, cycle, cycles, at,
                   sdp, hist>>

\* lines 348-355: the second activation; "continue" starts the next attempt
\* without the wait, and the loop ends after the third
ReactReply ==
    /\ pc["fg"] = "react" /\ xch["fg"] # "idle"
    /\ \E ok \in OkReplies("fg") :
         /\ pdp_context_active' = (ok \/ pdp_context_active)
         /\ IF ok THEN Goto("fg", "actq") /\ UNCHANGED net_attempt
            ELSE IF net_attempt < 2 THEN Goto("fg", "apn") /\ net_attempt' = net_attempt + 1
            ELSE Goto("fg", "cl_start") /\ net_attempt' = 0
    /\ EndExchange("fg")
    /\ UNCHANGED <<ser_open, is_connected, tcp_connected, mon_vars, shared, stack, ret,
                   quality_report, sensor_data, sequence, seq_tmp, tcp_attempt, wait_time, sm_i, cycle, cycles, at,
                   sdp, hist>>

\* lines 359-382 and 882-887: the confirmation; on success is_connected is set
\* and establish_tcp_connection is called
ActqReply ==
    /\ pc["fg"] = "actq" /\ xch["fg"] # "idle"
    /\ \E ok \in OkReplies("fg") :
         IF ok
         THEN /\ is_connected' = TRUE
              /\ CallEstablish("fg", <<"tcp_ret">>)
              /\ net_attempt' = 0
         ELSE /\ UNCHANGED <<is_connected, stack, tcp_attempt, wait_time>>
              /\ IF net_attempt < 2 THEN Goto("fg", "apn") /\ net_attempt' = net_attempt + 1
                 ELSE Goto("fg", "cl_start") /\ net_attempt' = 0
    /\ EndExchange("fg")
    /\ UNCHANGED <<ser_open, pdp_context_active, tcp_connected, mon_vars, shared, ret,
                   quality_report, sensor_data, sequence, seq_tmp, sm_i, cycle, cycles, at, sdp, hist>>

\* the result of establish_tcp_connection is not looked at
TcpRetMutant ==
    /\ pc["fg"] = "tcp_ret"
    /\ Goto("fg", "start_mon")
    /\ ret' = [ret EXCEPT !["fg"] = FALSE]
    /\ UNCHANGED <<conn, mon_vars, shared, stack, xch, locals, hist>>

\* lines 887-889
TcpRet ==
    /\ pc["fg"] = "tcp_ret"
    /\ Goto("fg", IF ret["fg"] THEN "start_mon" ELSE "cl_start")
    /\ ret' = [ret EXCEPT !["fg"] = FALSE]
    /\ UNCHANGED <<conn, mon_vars, shared, stack, xch, locals, hist>>

\* start_channel_monitoring, lines 763-800
StartChannelMonitoring ==
    /\ pc["fg"] = "start_mon"
    /\ IF monitor_active
       THEN UNCHANGED mon_vars /\ Goto("fg", "cyc_begin")
       ELSE /\ monitor_active' = TRUE
            /\ monitor_thread' = TRUE
            /\ pc' = [pc EXCEPT !["fg"] = "cyc_begin", !["mon"] = "m_loop"]
            /\ UNCHANGED loops
    /\ UNCHANGED <<conn, shared, stack, xch, ret, locals, hist>>

\* lines 897-911: the record of the cycle, then send_sensor_data on it
CycleBegin ==
    /\ pc["fg"] = "cyc_begin"
    /\ cycle' = cycle + 1
    /\ sensor_data' = [sensor_data EXCEPT !["fg"] = cycle + 1]
    /\ call' = [call EXCEPT !["fg"] = NoCall]
    /\ CallAssess("fg", <<"ssd_check", "cyc_ret">>)
    /\ UNCHANGED <<conn, mon_vars, shared, xch, ret, sequence, seq_tmp, tcp_attempt, wait_time,
                   net_attempt, sm_i, cycles, at, sdp, issued, tick, calls, sdp_hist, built, seen>>

\* lines 913-932: a False result puts the record on the queue; after the
\* last cycle the test returns and main runs cleanup
CycleRet ==
    /\ pc["fg"] = "cyc_ret"
    /\ data_queue' = IF ret["fg"] THEN data_queue ELSE Append(data_queue, sensor_data["fg"])
    /\ Goto("fg", "cyc_end")
    /\ UNCHANGED <<conn, mon_vars, channel_state, transmission_stats, transmission_config,
                   sequence_counter, stack, xch, ret, locals, hist>>

CycleEnd ==
    /\ pc["fg"] = "cyc_end"
    /\ Goto("fg", IF cycle < cycles THEN "cyc_begin" ELSE "cl_start")
    /\ sensor_data' = [sensor_data EXCEPT !["fg"] = 0]
    /\ ret' = [ret EXCEPT !["fg"] = FALSE]
    /\ UNCHANGED <<conn, mon_vars, shared, stack, xch, quality_report, sequence, seq_tmp,
                   tcp_attempt, wait_time, net_attempt, sm_i, cycle, cycles, at, sdp, hist>>

\* ---- cleanup ---------------------------------------------------------------------
\* line 1019
CleanupStop ==
    /\ pc["fg"] = "cl_start"
    /\ monitor_active' = FALSE
    /\ Goto("fg", IF monitor_thread THEN "cl_join" ELSE "cl_tcp")
    /\ call' = [call EXCEPT !["fg"] = NoCall]
    /\ UNCHANGED <<conn, monitor_thread, loops, shared, stack, xch, ret, locals, issued, tick,
                   calls, sdp_hist, built, seen>>

\* lines 1020-1021: join(timeout=5) returns when the thread has ended or
\* when the five seconds have passed, whichever is first
CleanupJoin ==
    /\ pc["fg"] = "cl_join"
    /\ Goto("fg", "cl_tcp")
    /\ UNCHANGED <<conn, mon_vars, shared, stack, xch, ret, locals, hist>>

\* line 1024
CleanupTcp ==
    /\ pc["fg"] = "cl_tcp"
    /\ Goto("fg", IF tcp_connected THEN "cl_close" ELSE "cl_ser")
    /\ UNCHANGED <<conn, mon_vars, shared, stack, xch, ret, locals, hist>>

\* a close that is not answered ends cleanup before the port is closed
CleanupCloseReplyMutant ==
    /\ pc["fg"] = "cl_close" /\ xch["fg"] # "idle"
    /\ \E ok \in OkReplies("fg") : Goto("fg", IF ok THEN "cl_ser" ELSE "done")
    /\ EndExchange("fg")
    /\ UNCHANGED <<conn, mon_vars, shared, stack, ret, locals, hist>>

\* lines 1026-1029
CleanupCloseReply ==
    /\ pc["fg"] = "cl_close" /\ xch["fg"] # "idle"
    /\ Goto("fg", "cl_ser") /\ EndExchange("fg")
    /\ UNCHANGED <<conn, mon_vars, shared, stack, ret, locals, hist>>

\* lines 1032-1036
CleanupSerial ==
    /\ pc["fg"] = "cl_ser"
    /\ ser_open' = FALSE
    /\ Goto("fg", "done")
    /\ UNCHANGED <<is_connected, pdp_context_active, tcp_connected, mon_vars, shared,
                   stack, xch, ret, locals, hist>>

\* ---- the program: main() ----------------------------------------------------------
\* the object after __init__ (lines 20-104), main about to call the test
NewSession ==
    /\ ser_open = FALSE /\ is_connected = FALSE
    /\ pdp_context_active = FALSE /\ tcp_connected = FALSE
    /\ monitor_active = FALSE /\ monitor_thread = FALSE /\ loops = <<>>
    /\ channel_state = [quality_score |-> 0, signal_strength |-> 0]
    /\ transmission_stats = [total_packets |-> 0, successful_packets |-> 0, failed_packets |-> 0,
                             retransmissions |-> 0, total_bytes |-> 0, success_rate |-> <<0, 1>>]
    /\ transmission_config = [packet_size |-> 1024, max_retries |-> 5, retry_delay |-> 2]
    /\ data_queue = <<>>
    /\ sequence_counter = 0
    /\ pc = [t \in Threads |-> IF t = "fg" THEN "main" ELSE "none"]
    /\ stack = [t \in Threads |-> <<>>]
    /\ xch = [t \in Threads |-> "idle"]
    /\ ret = [t \in Threads |-> FALSE]
    /\ quality_report = [t \in Threads |-> NoReport]
    /\ sensor_data = [t \in Threads |-> 0]
    /\ sequence = [t \in Threads |-> NoReply]
    /\ seq_tmp = [t \in Threads |-> NoReply]
    /\ tcp_attempt = [t \in Threads |-> 0]
    /\ wait_time = [t \in Threads |-> 0]
    /\ net_attempt = 0 /\ sm_i = 0 /\ cycle = 0 /\ at = NoAt
    /\ sdp = NoSdp
    /\ issued = <<>>
    /\ call = [t \in Threads |-> NoCall]
    /\ tick = NoTick
    /\ calls = 0
    /\ sdp_hist = NoHist
    /\ built = <<>>
    /\ seen = [t \in Threads |-> NoSeen]

Monitor ==
    \/ MonitorTick \/ MonitorHealth \/ HcActReply \/ HcStateReply \/ RcCloseReply
    \/ MonitorQueue

Common(t) ==
    \/ SendAtCommandRaw(t)
    \/ CsqReply(t) \/ CregReply(t) \/ CgattReply(t)
    \/ SsdDefer(t) \/ SsdAdjust(t)
    \/ GenRead(t) \/ GenLoad(t) \/ GenStore(t)
    \/ TcpCloseReply(t) \/ TcpOpenReply(t)

Next ==
    \/ InitSerial \/ AtReply \/ SetupModuleReply
    \/ ApnReply \/ ActReply \/ DeactReply \/ ReactReply \/ ActqReply
    \/ TcpRet \/ StartChannelMonitoring
    \/ CycleBegin \/ CycleRet \/ CycleEnd
    \/ CleanupStop \/ CleanupJoin \/ CleanupTcp \/ CleanupCloseReply \/ CleanupSerial
    \/ Monitor
    \/ \E t \in Threads : Common(t)

\* main() with cycles = MaxCycles
Init == NewSession /\ cycles = MaxCycles

Spec == Init /\ [][Next]_vars

\* the same program run for one more cycle
InitLong == NewSession /\ cycles = MaxCycles + 1

SpecLong == InitLong /\ [][Next]_vars

\* ---- send_data_packet ----------------------------------------------------------------
\* lines 640 and 667: the first statement of either update
CountAttempted(stats) == [stats EXCEPT !.total_packets = @ + 1]

\* lines 641-648: the rest of the update after a successful attempt
SuccessStats(stats, len) ==
    [stats EXCEPT !.successful_packets = @ + 1,
                  !.total_bytes = @ + len,
                  !.success_rate = <<stats.successful_packets + 1, stats.total_packets>>]

\* every attempt counted as a retransmission, the first one included
FailStatsMutant(stats, max_retries) ==
    [stats EXCEPT !.failed_packets = @ + 1,
                  !.retransmissions = @ + max_retries]

\* lines 668-669: the rest of the update after the last failed attempt
FailStats(stats, max_retries) ==
    [stats EXCEPT !.failed_packets = @ + 1,
                  !.retransmissions = @ + (max_retries - 1)]

StatsTuple(stats) == <<stats.total_packets, stats.successful_packets, stats.failed_packets,
                       stats.retransmissions, stats.total_bytes>>

\* a caller of the public method send_data_packet(packet, sequence); line 610
\* reads max_retries once
ApiCall ==
    /\ pc["fg"] = "api"
    /\ calls < MaxCalls
    /\ calls' = calls + 1
    /\ sdp' = [attempt |-> 0, max_retries |-> transmission_config.max_retries, wait_time |-> 0]
    /\ sdp_hist' = [active |-> TRUE, before |-> StatsTuple(transmission_stats),
                    max_retries |-> transmission_config.max_retries,
                    failures |-> 0, result |-> "none"]
    /\ Goto("fg", "sdp_try")
    /\ ret' = [ret EXCEPT !["fg"] = FALSE]
    /\ UNCHANGED <<conn, mon_vars, shared, stack, xch, quality_report, sensor_data, sequence,
                   seq_tmp, tcp_attempt, wait_time, net_attempt, sm_i, cycle, cycles, at, issued, call, tick, built, seen>>

\* lines 612-619: the sleep before the attempt, if any, is over; the
\* connection is reopened first when it is marked closed
SdpTry ==
    /\ pc["fg"] = "sdp_try"
    /\ IF tcp_connected
       THEN Goto("fg", "qisend") /\ UNCHANGED <<stack, tcp_attempt, wait_time>>
       ELSE CallEstablish("fg", <<"sdp_est_ret">>)
    /\ sdp' = [sdp EXCEPT !.wait_time = 0]
    /\ UNCHANGED <<conn, mon_vars, shared, xch, ret, quality_report, sensor_data, sequence,
                   seq_tmp, net_attempt, sm_i, cycle, cycles, at, hist>>

\* the end of one failed attempt: the next one after a sleep of w seconds
\* (0: no sleep), or lines 666-671 after the last
NextAttempt(w) ==
    /\ sdp_hist' = [sdp_hist EXCEPT !.failures = @ + 1]
    /\ IF sdp.attempt + 1 < sdp.max_retries
       THEN /\ sdp' = [sdp EXCEPT !.attempt = @ + 1, !.wait_time = w]
            /\ Goto("fg", "sdp_try")
       ELSE /\ UNCHANGED sdp
            /\ Goto("fg", "sdp_fail")

\* lines 619-621: a failed reconnect ends the attempt with "continue"
SdpEstRet ==
    /\ pc["fg"] = "sdp_est_ret"
    /\ IF ret["fg"]
       THEN Goto("fg", "qisend") /\ UNCHANGED <<sdp, sdp_hist, built, seen>>
       ELSE NextAttempt(0)
    /\ ret' = [ret EXCEPT !["fg"] = FALSE]
    /\ UNCHANGED <<conn, mon_vars, shared, stack, xch, quality_report, sensor_data, sequence,
                   seq_tmp, tcp_attempt, wait_time, net_attempt, sm_i, cycle, cycles, at, issued, call, tick, calls, built, seen>>

\* lines 624-627, 654: the reply of AT+QISEND=id,len carries the prompt or not
QisendReply ==
    /\ pc["fg"] = "qisend" /\ xch["fg"] # "idle"
    /\ \E ok \in OkReplies("fg") : Goto("fg", IF ok THEN "pkt_write" ELSE "sdp_backoff")
    /\ EndExchange("fg")
    /\ UNCHANGED <<conn, mon_vars, shared, stack, ret, locals, hist>>

\* lines 629-630: the packet bytes; ser.write raises on a closed port (line 656)
PktWrite ==
    /\ pc["fg"] = "pkt_write"
    /\ Goto("fg", IF ser_open THEN "qistatus" ELSE "sdp_backoff")
    /\ UNCHANGED <<conn, mon_vars, shared, stack, xch, ret, locals, hist>>

\* lines 633-637, 651-652: the status query; "0,0" in the reply is the success
QistatusReply ==
    /\ pc["fg"] = "qistatus" /\ xch["fg"] # "idle"
    /\ \E ok \in OkReplies("fg") : Goto("fg", IF ok THEN "sdp_ok" ELSE "sdp_backoff")
    /\ EndExchange("fg")
    /\ UNCHANGED <<conn, mon_vars, shared, stack, ret, locals, hist>>

\* line 640, the first statement of the update after a delivery
SdpCountDelivered ==
    /\ pc["fg"] = "sdp_ok"
    /\ transmission_stats' = CountAttempted(transmission_stats)
    /\ Goto("fg", "sdp_ok_rest")
    /\ UNCHANGED <<conn, mon_vars, channel_state, transmission_config, data_queue,
                   sequence_counter, stack, xch, ret, locals, hist>>

\* lines 641-650: the other counters, the success rate and the return
SdpSuccess ==
    /\ pc["fg"] = "sdp_ok_rest"
    /\ transmission_stats' = SuccessStats(transmission_stats, PacketLen)
    /\ Goto("fg", "api")
    /\ ret' = [ret EXCEPT !["fg"] = TRUE]
    /\ sdp' = NoSdp
    /\ sdp_hist' = [sdp_hist EXCEPT !.result = "success"]
    /\ UNCHANGED <<conn, mon_vars, channel_state, transmission_config, data_queue,
                   sequence_counter, stack, xch, quality_report, sensor_data, sequence, seq_tmp,
                   tcp_attempt, wait_time, net_attempt, sm_i, cycle, cycles, at, issued, call, tick, calls, built, seen>>

\* lines 660-663: time.sleep(retry_delay * (attempt + 1)) before the next attempt
SdpBackoff ==
    /\ pc["fg"] = "sdp_backoff"
    /\ NextAttempt(transmission_config.retry_delay * (sdp.attempt + 1))
    /\ UNCHANGED <<conn, mon_vars, shared, stack, xch, ret, quality_report, sensor_data,
                   sequence, seq_tmp, tcp_attempt, wait_time, net_attempt, sm_i, cycle, cycles, at, issued, call,
                   tick, calls, built, seen>>

\* lines 666-667: every attempt failed; the first statement of the update
SdpCountFailed ==
    /\ pc["fg"] = "sdp_fail"
    /\ transmission_stats' = CountAttempted(transmission_stats)
    /\ Goto("fg", "sdp_fail_rest")
    /\ UNCHANGED <<conn, mon_vars, channel_state, transmission_config, data_queue,
                   sequence_counter, stack, xch, ret, locals, hist>>

\* lines 668-671: the other counters and the return
SdpFail ==
    /\ pc["fg"] = "sdp_fail_rest"
    /\ transmission_stats' = FailStats(transmission_stats, sdp.max_retries)
    /\ Goto("fg", "api")
    /\ ret' = [ret EXCEPT !["fg"] = FALSE]
    /\ sdp' = NoSdp
    /\ sdp_hist' = [sdp_hist EXCEPT !.result = "failure"]
    /\ UNCHANGED <<conn, mon_vars, channel_state, transmission_config, data_queue,
                   sequence_counter, stack, xch, quality_report, sensor_data, sequence, seq_tmp,
                   tcp_attempt, wait_time, net_attempt, sm_i, cycle, cycles, at, issued, call, tick, calls, built, seen>>

\* ---- a session in its data phase whose caller uses send_data_packet ----------------
\* the state after a successful start: port open, network attached, monitor
\* running; the logical connection is up or was lost, the profile is one of
\* the high-speed preset or the initial one, the queue is empty
Profiles == {[packet_size |-> 1024, max_retries |-> 5, retry_delay |-> 2]}
            \cup {AdjustTransmissionParameters([packet_size |-> 1024, max_retries |-> 5,
                                                retry_delay |-> 2], q) : q \in {90}}

InitSend ==
    /\ ser_open = TRUE /\ is_connected = TRUE /\ pdp_context_active = TRUE
    /\ tcp_connected \in BOOLEAN
    /\ monitor_active = TRUE /\ monitor_thread = TRUE /\ loops = <<>>
    /\ channel_state = [quality_score |-> 0, signal_strength |-> 0]
    /\ transmission_stats = [total_packets |-> 0, successful_packets |-> 0, failed_packets |-> 0,
                             retransmissions |-> 0, total_bytes |-> 0, success_rate |-> <<0, 1>>]
    /\ transmission_config \in Profiles
    /\ data_queue = <<>>
    /\ sequence_counter = 0
    /\ pc = [t \in Threads |-> IF t = "fg" THEN "api" ELSE "m_loop"]
    /\ stack = [t \in Threads |-> <<>>]
    /\ xch = [t \in Threads |-> "idle"]
    /\ ret = [t \in Threads |-> FALSE]
    /\ quality_report = [t \in Threads |-> NoReport]
    /\ sensor_data = [t \in Threads |-> 0]
    /\ sequence = [t \in Threads |-> NoReply]
    /\ seq_tmp = [t \in Threads |-> NoReply]
    /\ tcp_attempt = [t \in Threads |-> 0]
    /\ wait_time = [t \in Threads |-> 0]
    /\ net_attempt = 0 /\ sm_i = 0 /\ cycle = 0 /\ cycles = MaxCycles /\ at = NoAt
    /\ sdp = NoSdp
    /\ issued = <<>>
    /\ call = [t \in Threads |-> NoCall]
    /\ tick = NoTick
    /\ calls = 0
    /\ sdp_hist = NoHist
    /\ built = <<>>
    /\ seen = [t \in Threads |-> NoSeen]

NextSend ==
    \/ ApiCall \/ SdpTry \/ SdpEstRet \/ QisendReply \/ PktWrite \/ QistatusReply
    \/ SdpCountDelivered \/ SdpSuccess
    \/ SdpBackoff \/ SdpCountFailed \/ SdpFail
    \/ Monitor
    \/ \E t \in Threads :
         \/ SendAtCommandRaw(t)
         \/ CsqReply(t) \/ CregReply(t) \/ CgattReply(t)
         \/ TcpCloseReply(t) \/ TcpOpenReply(t)

SpecSend == InitSend /\ [][NextSend]_vars

\* ---- a caller of assess_channel_quality on a session without a monitor ---------------
MaxHistory == 100       \* packets sent before the assessment

Levels == (0..31) \cup {99}          \* <rssi> of +CSQ (3GPP TS 27.007)
Bers == {0, 7, 99}                   \* <ber> of +CSQ
AllStats == 0..5                     \* <stat> of +CREG

\* transmission_stats after MaxHistory packets of which r were delivered, the
\* last delivered one being the last packet (lines 640-648, 667-669)
History(r) ==
    [total_packets |-> MaxHistory, successful_packets |-> r, failed_packets |-> MaxHistory - r,
     retransmissions |-> 0, total_bytes |-> r * PacketLen,
     success_rate |-> IF r = 0 THEN <<0, 1>> ELSE <<r, MaxHistory>>]

NoHistory == [total_packets |-> 0, successful_packets |-> 0, failed_packets |-> 0,
              retransmissions |-> 0, total_bytes |-> 0, success_rate |-> <<0, 1>>]

\* the session object with its port open or not and the foreground at label l
SessionAt(l, open) ==
    /\ ser_open = open /\ is_connected = FALSE
    /\ pdp_context_active = FALSE /\ tcp_connected = FALSE
    /\ monitor_active = FALSE /\ monitor_thread = FALSE /\ loops = <<>>
    /\ channel_state = [quality_score |-> 0, signal_strength |-> 0]
    /\ transmission_config = [packet_size |-> 1024, max_retries |-> 5, retry_delay |-> 2]
    /\ data_queue = <<>>
    /\ sequence_counter = 0
    /\ pc = [t \in Threads |-> IF t = "fg" THEN l ELSE "none"]
    /\ stack = [t \in Threads |-> <<>>]
    /\ xch = [t \in Threads |-> "idle"]
    /\ ret = [t \in Threads |-> FALSE]
    /\ sensor_data = [t \in Threads |-> 0]
    /\ sequence = [t \in Threads |-> NoReply]
    /\ seq_tmp = [t \in Threads |-> NoReply]
    /\ tcp_attempt = [t \in Threads |-> 0]
    /\ wait_time = [t \in Threads |-> 0]
    /\ net_attempt = 0 /\ sm_i = 0 /\ cycle = 0 /\ cycles = MaxCycles /\ at = NoAt
    /\ sdp = NoSdp
    /\ issued = <<>>
    /\ call = [t \in Threads |-> NoCall]
    /\ tick = NoTick
    /\ calls = 0
    /\ sdp_hist = NoHist
    /\ built = <<>>
    /\ seen = [t \in Threads |-> NoSeen]

OpenSession(l) == SessionAt(l, TRUE)

InitAssess ==
    /\ OpenSession("assess")
    /\ transmission_stats \in {NoHistory} \cup {History(r) : r \in 0..MaxHistory}
    /\ quality_report = [t \in Threads |-> NoReport]

\* the call of assess_channel_quality, lines 435-445
AssessCall ==
    /\ pc["fg"] = "assess"
    /\ CallAssess("fg", <<"assess_done">>)
    /\ UNCHANGED <<conn, mon_vars, shared, xch, ret, sensor_data, sequence, seq_tmp,
                   tcp_attempt, wait_time, net_attempt, sm_i, cycle, cycles, at, sdp, hist>>

NextAssess ==
    \/ AssessCall
    \/ SendAtCommandRaw("fg")
    \/ CsqReplyOn("fg", Shapes, Levels, Bers) \/ CregReplyOn("fg", AllStats) \/ CgattReply("fg")

SpecAssess == InitAssess /\ [][NextAssess]_vars

\* ---- a caller that assesses the channel again and again ------------------------------
InitRepeat ==
    /\ OpenSession("assess")
    /\ transmission_stats = NoHistory
    /\ quality_report = [t \in Threads |-> NoReport]

\* one more call of assess_channel_quality (as lines 775 and 682 make them);
\* the report of the call before is remembered
AssessAgain ==
    /\ pc["fg"] \in {"assess", "assess_done"}
    /\ calls < MaxCalls
    /\ calls' = calls + 1
    /\ CallAssess("fg", <<"assess_done">>)
    /\ seen' = [seen EXCEPT !["fg"].prev = quality_report["fg"]]
    /\ UNCHANGED <<conn, mon_vars, shared, xch, ret, sensor_data, sequence, seq_tmp,
                   tcp_attempt, wait_time, net_attempt, sm_i, cycle, cycles, at, sdp, issued, call,
                   tick, sdp_hist, built>>

NextRepeat ==
    \/ AssessAgain
    \/ SendAtCommandRaw("fg")
    \/ CsqReply("fg") \/ CregReply("fg") \/ CgattReply("fg")

SpecRepeat == InitRepeat /\ [][NextRepeat]_vars

\* ---- a caller that starts and stops monitoring more than once ------------------------
MaxStarts == 2          \* start_channel_monitoring calls of the caller

\* a session whose port is open, with or without a logical connection, before
\* the first start_channel_monitoring call
InitMon ==
    /\ ser_open = TRUE /\ is_connected = TRUE /\ pdp_context_active = TRUE
    /\ tcp_connected \in BOOLEAN
    /\ monitor_active = FALSE /\ monitor_thread = FALSE /\ loops = <<>>
    /\ channel_state = [quality_score |-> 0, signal_strength |-> 0]
    /\ transmission_stats = NoHistory
    /\ transmission_config = [packet_size |-> 1024, max_retries |-> 5, retry_delay |-> 2]
    /\ data_queue = <<>>
    /\ sequence_counter = 0
    /\ pc = [t \in Threads |-> IF t = "fg" THEN "mon_api" ELSE "none"]
    /\ stack = [t \in Threads |-> <<>>]
    /\ xch = [t \in Threads |-> "idle"]
    /\ ret = [t \in Threads |-> FALSE]
    /\ quality_report = [t \in Threads |-> NoReport]
    /\ sensor_data = [t \in Threads |-> 0]
    /\ sequence = [t \in Threads |-> NoReply]
    /\ seq_tmp = [t \in Threads |-> NoReply]
    /\ tcp_attempt = [t \in Threads |-> 0]
    /\ wait_time = [t \in Threads |-> 0]
    /\ net_attempt = 0 /\ sm_i = 0 /\ cycle = 0 /\ cycles = MaxCycles /\ at = NoAt
    /\ sdp = NoSdp
    /\ issued = <<>>
    /\ call = [t \in Threads |-> NoCall]
    /\ tick = NoTick
    /\ calls = 0
    /\ sdp_hist = NoHist
    /\ built = <<>>
    /\ seen = [t \in Threads |-> NoSeen]

\* start_channel_monitoring, lines 763-800: nothing when monitor_active is
\* set; otherwise the flag is set and a new thread is created and started,
\* which replaces the handle in monitor_thread
StartCall ==
    /\ pc["fg"] \in {"mon_api", "done"}
    /\ calls < MaxStarts
    /\ calls' = calls + 1
    /\ Goto("fg", "mon_api")
    /\ IF monitor_active
       THEN UNCHANGED mon_vars
       ELSE /\ monitor_active' = TRUE
            /\ monitor_thread' = TRUE
            /\ loops' = Append(loops, "test")
    /\ UNCHANGED <<conn, shared, stack, xch, ret, locals, issued, call, tick, sdp_hist, built,
                   seen>>

\* the caller calls cleanup
CleanupCall ==
    /\ pc["fg"] \in {"mon_api", "done"}
    /\ Goto("fg", "cl_start")
    /\ UNCHANGED <<conn, mon_vars, shared, stack, xch, ret, locals, hist>>

\* lines 797 and 772 of thread i: the sleep is over and the loop condition is
\* read; the thread ends when monitor_active is not set
LoopTest(i) ==
    /\ loops[i] = "test"
    /\ loops' = [loops EXCEPT ![i] = IF monitor_active THEN "tick" ELSE "ended"]
    /\ UNCHANGED <<conn, monitor_active, monitor_thread, shared, ctl, locals, hist>>

\* lines 773-794 of thread i: the body of one pass, which does not write
\* monitor_active and always comes to its end
LoopTick(i) ==
    /\ loops[i] = "tick"
    /\ loops' = [loops EXCEPT ![i] = "test"]
    /\ UNCHANGED <<conn, monitor_active, monitor_thread, shared, ctl, locals, hist>>

NextMon ==
    \/ StartCall \/ CleanupCall
    \/ CleanupStop \/ CleanupJoin \/ CleanupTcp \/ SendAtCommandRaw("fg")
    \/ CleanupCloseReply \/ CleanupSerial
    \/ \E i \in 1..Len(loops) : LoopTest(i) \/ LoopTick(i)

SpecMon == InitMon /\ [][NextMon]_vars

\* ---- lines 514-529 of assess_channel_quality on every score --------------------------
Scores == 0..100

\* the assessment between line 510 and line 514: the score is computed, the
\* tier is not yet set
InitTier ==
    /\ OpenSession("tier")
    /\ transmission_stats = NoHistory
    /\ \E q \in Scores :
         quality_report = [t \in Threads |->
                             IF t = "fg" THEN [NewReport EXCEPT !.quality_score = q] ELSE NoReport]

\* lines 514-529
TierStep ==
    /\ pc["fg"] = "tier"
    /\ quality_report' = [quality_report EXCEPT
                            !["fg"].stability = Stability(quality_report["fg"].quality_score),
                            !["fg"].recommended_action =
                                RecommendedAction(quality_report["fg"].quality_score)]
    /\ Goto("fg", "assess_done")
    /\ UNCHANGED <<conn, mon_vars, shared, stack, xch, ret, sensor_data, sequence, seq_tmp,
                   tcp_attempt, wait_time, net_attempt, sm_i, cycle, cycles, at, sdp, hist>>

NextTier == TierStep

SpecTier == InitTier /\ [][NextTier]_vars

\* ---- send_at_command_raw in detail: one caller, the reply wait poll by poll ----------
MaxPolls == 4           \* longest timeout, in polling intervals of the wait loop

\* what one poll of the wait loop finds: nothing, bytes without a terminal
\* marker, bytes that complete "OK\r\n" or "ERROR\r\n", or a port error
Polls == {"none", "part", "marker", "fault"}

InitAt ==
    /\ \E open \in BOOLEAN : SessionAt("raw", open)
    /\ transmission_stats = NoHistory
    /\ quality_report = [t \in Threads |-> NoReport]

\* lines 168-182: the port test, then the one write of the command; a port
\* error in the write is caught at lines 217-222
AtCall ==
    /\ pc["fg"] = "raw"
    /\ at.n < MaxCalls
    /\ \E T \in 1..MaxPolls, written \in BOOLEAN :
         LET a == [NoAt EXCEPT !.n = at.n + 1, !.timeout = T]
         IN IF ~ser_open
            THEN /\ at' = [a EXCEPT !.response = "empty"]
                 /\ Goto("fg", "raw_done")
            ELSE IF written
            THEN /\ at' = [a EXCEPT !.writes = 1]
                 /\ Goto("fg", "raw_wait")
            ELSE /\ at' = [a EXCEPT !.writes = 1, !.response = "empty"]
                 /\ Goto("fg", "raw_done")
    /\ UNCHANGED <<conn, mon_vars, shared, stack, xch, ret, quality_report, sensor_data,
                   sequence, seq_tmp, tcp_attempt, wait_time, net_attempt, sm_i, cycle, cycles, sdp, hist>>

\* the wait ends at the timeout and the command is written again
AtTimeoutMutant ==
    /\ pc["fg"] = "raw_wait"
    /\ at.elapsed >= at.timeout
    /\ IF at.chunks > 0
       THEN /\ at' = [at EXCEPT !.response = "text"]
            /\ Goto("fg", "raw_done")
       ELSE /\ at' = [at EXCEPT !.writes = 2, !.elapsed = 0]
            /\ UNCHANGED pc
    /\ UNCHANGED <<conn, mon_vars, shared, stack, xch, ret, quality_report, sensor_data,
                   sequence, seq_tmp, tcp_attempt, wait_time, net_attempt, sm_i, cycle, cycles, sdp, hist>>

\* lines 188 and 198-215: the loop test fails once the timeout has elapsed;
\* what was received is returned
AtTimeout ==
    /\ pc["fg"] = "raw_wait"
    /\ at.elapsed >= at.timeout
    /\ at' = [at EXCEPT !.response = IF at.chunks > 0 THEN "text" ELSE "empty"]
    /\ Goto("fg", "raw_done")
    /\ UNCHANGED <<conn, mon_vars, shared, stack, xch, ret, quality_report, sensor_data,
                   sequence, seq_tmp, tcp_attempt, wait_time, net_attempt, sm_i, cycle, cycles, sdp, hist>>

\* lines 188-196: one pass of the wait loop before the timeout; a terminal
\* marker in the bytes received so far ends the wait, anything else is followed
\* by the 0.05 s sleep
AtPoll ==
    /\ pc["fg"] = "raw_wait"
    /\ at.elapsed < at.timeout
    /\ \E chunk \in Polls :
         CASE chunk = "none" ->
                /\ at' = [at EXCEPT !.elapsed = @ + 1]
                /\ UNCHANGED pc
           [] chunk = "part" ->
                /\ at' = [at EXCEPT !.elapsed = @ + 1, !.chunks = @ + 1]
                /\ UNCHANGED pc
           [] chunk = "marker" ->
                /\ at' = [at EXCEPT !.chunks = @ + 1, !.marker = TRUE, !.response = "text"]
                /\ Goto("fg", "raw_done")
           [] chunk = "fault" ->
                /\ at' = [at EXCEPT !.response = "empty"]
                /\ Goto("fg", "raw_done")
    /\ UNCHANGED <<conn, mon_vars, shared, stack, xch, ret, quality_report, sensor_data,
                   sequence, seq_tmp, tcp_attempt, wait_time, net_attempt, sm_i, cycle, cycles, sdp, hist>>

\* the caller goes on to its next command
AtAgain ==
    /\ pc["fg"] = "raw_done"
    /\ at.n < MaxCalls
    /\ at' = [NoAt EXCEPT !.n = at.n]
    /\ Goto("fg", "raw")
    /\ UNCHANGED <<conn, mon_vars, shared, stack, xch, ret, quality_report, sensor_data,
                   sequence, seq_tmp, tcp_attempt, wait_time, net_attempt, sm_i, cycle, cycles, sdp, hist>>

NextAt == AtCall \/ AtPoll \/ AtTimeout \/ AtAgain

SpecAt == InitAt /\ [][NextAt]_vars

\* ---- generate_data_packet in detail: a caller that encodes records -------------------
Records == {1, 2}                    \* the records the caller encodes
Times == 1..3                        \* readings of datetime.now()
Seeds == {1000, 5000, 9999}          \* values of random.randint(1000, 9999)
StructError == "struct.error"

\* lines 599-601: the MD5 hex digest of the text, a str (the digest itself is
\* kept as the text it was computed from)
CalculateCrc32(json) == [type |-> "str", digest |-> json]

\* line 586: struct.pack('!II', sequence, crc32) takes two integers
StructPack(seq, crc32) ==
    IF crc32.type = "int" THEN [sequence |-> seq, checksum |-> crc32.digest] ELSE StructError

\* generate_sensor_data, lines 844-860: record number id as the dict the
\* caller passes (its own timestamp is earlier than any reading of Times)
SensorRecord(id) == [device_id |-> "EC800X_Sensor_001", timestamp |-> 0, temperature |-> id]

\* the keys in the order the dict got them: those of the record, then the
\* ones lines 575-577 add
KeyOrder == <<"device_id", "timestamp", "temperature", "sequence", "checksum_seed">>

\* lines 574-577: the copy of the record with sequence, timestamp and
\* checksum_seed set; a key the record has already is overwritten
EnhancedData(data, seq, now, seed) ==
    [sequence |-> seq, timestamp |-> now, checksum_seed |-> seed] @@ SensorRecord(data)

\* line 580: json.dumps writes the members of the dict in order
JsonDumps(d) ==
    LET keys == SelectSeq(KeyOrder, LAMBDA k : k \in DOMAIN d)
    IN [i \in 1..Len(keys) |-> <<keys[i], d[keys[i]]>>]

\* lines 574-597: the record with sequence, timestamp and checksum_seed added,
\* as JSON; the header packed in front of it
Packet(data, seq, now, seed) ==
    LET json_data == JsonDumps(EnhancedData(data, seq, now, seed))
        packet_struct == StructPack(seq, CalculateCrc32(json_data))
    IN [json_data |-> json_data,
        packet |-> IF packet_struct = StructError THEN StructError
                   ELSE [packet_struct |-> packet_struct, body |-> json_data]]

InitGen ==
    /\ OpenSession("enc")
    /\ transmission_stats = NoHistory
    /\ quality_report = [t \in Threads |-> NoReport]

\* the caller passes a record to generate_data_packet of a new session object
\* (sequence_counter = 0, line 65)
EncCall ==
    /\ pc["fg"] = "enc"
    /\ Len(built) < MaxCalls
    /\ \E r \in Records : sensor_data' = [sensor_data EXCEPT !["fg"] = r]
    /\ sequence_counter' = 0
    /\ Goto("fg", "gen_read")
    /\ UNCHANGED <<conn, mon_vars, channel_state, transmission_stats, transmission_config,
                   data_queue, stack, xch, ret, quality_report, sequence, seq_tmp, tcp_attempt, wait_time,
                   net_attempt, sm_i, cycle, cycles, at, sdp, hist>>

\* line 571, second half, and lines 574-597 as the caller sees them: the
\* counter is stored, the clock and the random generator are read, the text is
\* built and packed; the caller gets the packet or the exception
GenBuild ==
    /\ pc["fg"] = "gen_store"
    /\ sequence_counter' = seq_tmp["fg"] + 1
    /\ \E now \in Times, seed \in Seeds :
         /\ \A i \in 1..Len(built) : built[i].now <= now
         /\ built' = Append(built, [data |-> sensor_data["fg"], sequence |-> sequence["fg"],
                                     now |-> now]
                                    @@ Packet(sensor_data["fg"], sequence["fg"], now, seed))
    /\ Goto("fg", "enc")
    /\ sensor_data' = [sensor_data EXCEPT !["fg"] = 0]
    /\ sequence' = [sequence EXCEPT !["fg"] = NoReply]
    /\ seq_tmp' = [seq_tmp EXCEPT !["fg"] = NoReply]
    /\ UNCHANGED <<conn, mon_vars, channel_state, transmission_stats, transmission_config,
                   data_queue, stack, xch, ret, quality_report, tcp_attempt, wait_time, net_attempt, sm_i,
                   cycle, cycles, at, sdp, issued, call, tick, calls, sdp_hist, seen>>

NextGen == EncCall \/ GenRead("fg") \/ GenLoad("fg") \/ GenBuild

SpecGen == InitGen /\ [][NextGen]_vars

\* ======================================================================================
\* Properties
\* ======================================================================================

\* C1: at most one thread has a command exchange in flight (command written,
\* reply wait not ended, or between a packet-send prompt and the end of the
\* status query) at any time.
C1_OneExchangeInFlight == Cardinality({t \in Threads : InExchange(t)}) <= 1

\* C2: the sequence numbers taken by generate_data_packet, in the order the
\* calls take them, are strictly increasing: no two calls get the same number.
C2_SequenceStrictlyIncreasing ==
    \A i, j \in 1..Len(issued) : i < j => issued[i] < issued[j]

\* C3: a send_sensor_data call whose assessment gave a quality score below 30
\* defers the record and goes no further: it takes no sequence number and
\* builds no packet.
C3_LowQualityIsDeferred ==
    \A t \in Threads :
        (call[t].outcome # "none" /\ call[t].low) => call[t].outcome = "deferred"

\* C4: a send_sensor_data call whose assessment gave a quality score of 30 or
\* more does not defer the record; it refreshes the profile, builds the
\* packet and makes a delivery attempt (it does not end in the packet build).
C4_GoodQualityIsSent ==
    \A t \in Threads :
        (call[t].outcome # "none" /\ ~call[t].low) => call[t].outcome \notin {"deferred", "raised"}

\* the value send_sensor_data returns for a failed send (line 711, success = False)
SendFailureResult == FALSE

\* C5: at the end of a foreground cycle whose record was deferred, the result
\* the caller got differs from the result of a failed send, and the record is
\* not on the queue more than once.
C5_DeferredOnceAndDistinct ==
    (pc["fg"] = "cyc_end" /\ call["fg"].outcome = "deferred")
        => /\ ret["fg"] # SendFailureResult
           /\ Count(data_queue, sensor_data["fg"]) <= 1

\* C6: a send_data_packet call in which every attempt failed returns False
\* having added 1 to total_packets, 1 to failed_packets and max_retries - 1
\* to retransmissions, and nothing to successful_packets and total_bytes.
C6_ExhaustedRetriesStats ==
    (pc["fg"] = "api" /\ sdp_hist.result = "failure")
        => /\ sdp_hist.failures = sdp_hist.max_retries
           /\ ret["fg"] = FALSE
           /\ StatsTuple(transmission_stats) =
                <<sdp_hist.before[1] + 1, sdp_hist.before[2], sdp_hist.before[3] + 1,
                  sdp_hist.before[4] + (sdp_hist.max_retries - 1), sdp_hist.before[5]>>

C6_Witness ==
    /\ pc["fg"] = "api" /\ sdp_hist.result = "failure"
    /\ sdp_hist.max_retries = 5 /\ sdp_hist.failures = 5
    /\ transmission_stats.retransmissions >= 4

\* C7: a send_data_packet call with max_retries = 3 whose first two attempts
\* fail and whose third succeeds returns True with total_packets + 1,
\* successful_packets + 1 and retransmissions + 2.
C7_ThirdAttemptSuccessStats ==
    (pc["fg"] = "api" /\ sdp_hist.result = "success"
       /\ sdp_hist.max_retries = 3 /\ sdp_hist.failures = 2)
        => /\ ret["fg"] = TRUE
           /\ transmission_stats.total_packets = sdp_hist.before[1] + 1
           /\ transmission_stats.successful_packets = sdp_hist.before[2] + 1
           /\ transmission_stats.retransmissions = sdp_hist.before[4] + 2

\* C8: after a send_sensor_data call that did not deliver its record, made by
\* the foreground cycle (once the cycle has handled the result) or by the
\* monitor loop on a dequeued item, the record is on the deferred queue.
C8_UndeliveredIsRequeued ==
    /\ (pc["fg"] \in {"cyc_end", "cl_start"} /\ call["fg"].outcome \in {"deferred", "raised"})
          => Count(data_queue, call["fg"].data) >= 1
    /\ (pc["mon"] = "m_loop" /\ call["mon"].outcome \in {"deferred", "raised"})
          => Count(data_queue, call["mon"].data) >= 1

\* C9: the queue only ever loses its head, in the monitor's queue step, once
\* per tick, with the stored score above 50, and the item goes to
\* send_sensor_data; and the queue step does remove an item whenever the
\* queue is not empty and the score is above 50.
C9_Step ==
    /\ Len(data_queue') < Len(data_queue)
          => /\ pc["mon"] = "m_queue" /\ tick.removed = 0
             /\ channel_state.quality_score > 50
             /\ data_queue' = Tail(data_queue)
             /\ sensor_data'["mon"] = Head(data_queue)
             /\ pc'["mon"] = "csq" /\ stack'["mon"] = <<"ssd_check", "m_loop">>
    /\ (pc["mon"] = "m_queue" /\ pc'["mon"] # "m_queue"
        /\ data_queue # <<>> /\ channel_state.quality_score > 50)
          => Len(data_queue') = Len(data_queue) - 1
    /\ tick'.removed <= 1

C9_OneItemPerTick == [][C9_Step]_vars

C9_Witness ==
    /\ tick.removed = 1 /\ tick.nonempty /\ tick.above50
    /\ pc["mon"] = "csq" /\ sensor_data["mon"] # 0
    /\ Len(data_queue) >= 1

\* C10: while a record that was first enqueued earlier is still on the queue,
\* no later record taken from the queue gets as far as a delivery attempt
\* (records are numbered in the order the cycles create them).
C10_FifoNoOvertaking ==
    call["mon"].outcome \in {"building", "raised"}
        => \A i \in 1..Len(data_queue) : data_queue[i] >= call["mon"].data

\* C11: the tier of a score is excellent from 80, good from 60 to 79, fair
\* from 40 to 59 and poor below 40, for every score of 0..100, with the
\* actions transmit normally, transmit normally, reduce packet size and defer.
C11_TierMapping ==
    pc["fg"] = "assess_done" =>
        LET q == quality_report["fg"].quality_score
            tier == quality_report["fg"].stability
            act == quality_report["fg"].recommended_action
        IN /\ q \in Scores
           /\ tier \in {"excellent", "good", "fair", "poor"}
           /\ (q >= 80) <=> (tier = "excellent")
           /\ (q >= 60 /\ q < 80) <=> (tier = "good")
           /\ (q >= 40 /\ q < 60) <=> (tier = "fair")
           /\ (q < 40) <=> (tier = "poor")
           /\ tier \in {"excellent", "good"} <=> (act = "transmit")
           /\ (tier = "fair") <=> (act = "small_packets")
           /\ (tier = "poor") <=> (act = "wait")

C11_Witness ==
    /\ pc["fg"] = "assess_done"
    /\ quality_report["fg"].quality_score = 60
    /\ quality_report["fg"].stability = "good"

\* the network part of the score as the claims name it, from the classification
ClaimedN(network_status) ==
    IF network_status \in {"registered", "attached"} THEN 30
    ELSE IF network_status \in {"unregistered", "unattached"} THEN 10
    ELSE 20

Clamp(x) == IF x < 0 THEN 0 ELSE IF x > 100 THEN 100 ELSE x

C13_Case ==
    /\ pc["fg"] = "assess_done"
    /\ quality_report["fg"].signal_strength = 15
    /\ quality_report["fg"].network_status = "attached"
    /\ transmission_stats.total_packets = 0

\* C13 as stated: that assessment gives signal level 15, a score of about 24
\* (23 to 25), tier poor and the action defer.
C13_Csq15IsPoor ==
    C13_Case => /\ channel_state.signal_strength = 15
                /\ quality_report["fg"].quality_score \in 23..25
                /\ quality_report["fg"].stability = "poor"
                /\ quality_report["fg"].recommended_action = "wait"

\* the monitor thread takes the step
MonitorStep == pc'["mon"] # pc["mon"] \/ xch'["mon"] # xch["mon"]

\* the monitor is inside recover_connection
InRecovery == \/ pc["mon"] = "rc_close"
              \/ pc["mon"] \in {"tcp_close", "tcp_open"} /\ stack["mon"] = <<"m_queue">>

\* C14: a failed health check starts the recovery; the recovery closes the
\* logical connection, marks it not connected and reopens it; when the reopen
\* succeeds the connection is marked connected; and no step of the recovery
\* changes the open state of the port, is_connected or pdp_context_active.
C14_Step ==
    MonitorStep =>
        /\ (pc["mon"] \in {"hc_act", "hc_state"} /\ xch["mon"] # "idle"
             /\ pc'["mon"] \notin {"hc_state", "m_queue"})
               => pc'["mon"] = "rc_close" /\ UNCHANGED conn
        /\ InRecovery => UNCHANGED <<ser_open, is_connected, pdp_context_active>>
        /\ (pc["mon"] = "rc_close" /\ xch["mon"] # "idle")
               => ~tcp_connected' /\ pc'["mon"] = "tcp_close" /\ tcp_attempt'["mon"] = 0
        /\ (InRecovery /\ pc'["mon"] = "m_queue")
               => (pc["mon"] = "tcp_open" /\ (ret'["mon"] => tcp_connected'))

C14_RecoveryFrame == [][C14_Step]_vars

C14_Witness ==
    /\ pc["mon"] = "m_queue" /\ ret["mon"] /\ tick.removed = 0
    /\ tcp_connected /\ ser_open /\ is_connected /\ pdp_context_active

\* how far cleanup has got
CleanupRank ==
    CASE pc["fg"] = "cl_start" -> 1
      [] pc["fg"] = "cl_join" -> 2
      [] pc["fg"] = "cl_tcp" -> 3
      [] pc["fg"] = "cl_close" /\ xch["fg"] = "idle" -> 4
      [] pc["fg"] = "cl_close" /\ xch["fg"] # "idle" -> 5
      [] pc["fg"] = "cl_ser" -> 6
      [] pc["fg"] = "done" -> 7
      [] OTHER -> 0

FgStep == pc'["fg"] # pc["fg"] \/ xch'["fg"] # xch["fg"]

C15_Step ==
    (FgStep /\ CleanupRank >= 1) =>
        /\ CleanupRank' > CleanupRank
        /\ pc["fg"] = "cl_start"
              => ~monitor_active' /\ pc'["fg"] = (IF monitor_thread THEN "cl_join" ELSE "cl_tcp")
        /\ pc["fg"] = "cl_join" => pc'["fg"] = "cl_tcp"
        /\ pc["fg"] = "cl_tcp" => pc'["fg"] = (IF tcp_connected THEN "cl_close" ELSE "cl_ser")
        /\ pc["fg"] = "cl_close" => pc'["fg"] \in {"cl_close", "cl_ser"}
        /\ pc["fg"] = "cl_ser" => pc'["fg"] = "done" /\ ~ser_open'
        /\ pc["fg"] # "cl_ser" => UNCHANGED ser_open
        /\ pc["fg"] # "cl_start" => ~monitor_active /\ ~monitor_active'

C15_NotStuck ==
    (CleanupRank >= 1 /\ pc["fg"] # "done")
        => ENABLED (\/ CleanupStop \/ CleanupJoin \/ CleanupTcp \/ SendAtCommandRaw("fg")
                    \/ CleanupCloseReply \/ CleanupSerial)

\* C15: cleanup clears monitor_active, then joins the monitor thread, then
\* closes the logical connection when it is marked connected, then closes the
\* port; every step takes it strictly further, whatever the close command
\* returns the port is closed next, and before it is done cleanup always has a
\* step it can take.
C15_CleanupOrder == []C15_NotStuck /\ [][C15_Step]_vars

C15_Witness ==
    /\ pc["fg"] = "done" /\ ~ser_open /\ ~monitor_active
    /\ tcp_connected /\ monitor_thread /\ pc["mon"] # "m_done"

\* the place of the monitor inside its tick
TickLabel ==
    LET sending == stack["mon"] # <<>> /\ Head(stack["mon"]) = "ssd_check"
    IN CASE pc["mon"] = "csq" -> IF sending THEN 15 ELSE 1
         [] pc["mon"] = "creg" -> IF sending THEN 16 ELSE 2
         [] pc["mon"] = "cgatt" -> IF sending THEN 17 ELSE 3
         [] pc["mon"] = "m_health" -> 4
         [] pc["mon"] = "hc_act" -> 5
         [] pc["mon"] = "hc_state" -> 6
         [] pc["mon"] = "rc_close" -> 7
         [] pc["mon"] = "tcp_close" -> 8 + 2 * tcp_attempt["mon"]
         [] pc["mon"] = "tcp_open" -> 9 + 2 * tcp_attempt["mon"]
         [] pc["mon"] = "m_queue" -> 14
         [] pc["mon"] = "ssd_check" -> 18
         [] pc["mon"] = "gen_read" -> 19
         [] pc["mon"] = "gen_load" -> 20
         [] pc["mon"] = "gen_store" -> 21
         [] pc["mon"] = "m_loop" -> 22
         [] pc["mon"] = "m_done" -> 23
         [] OTHER -> 0

TickRank == 2 * TickLabel + (IF xch["mon"] # "idle" THEN 1 ELSE 0)

C16_Step ==
    MonitorStep =>
        /\ pc'["mon"] = "m_done" => pc["mon"] = "m_loop" /\ ~monitor_active
        /\ (pc["mon"] = "m_loop" /\ monitor_active)
              => pc'["mon"] = "csq" /\ stack'["mon"] = <<"m_health">>
        /\ pc["mon"] \notin {"none", "m_loop"} => TickRank' > TickRank
        /\ pc["mon"] = "gen_store" => pc'["mon"] = "m_loop"
        /\ UNCHANGED mon_vars \/ pc["mon"] = "none"

C16_NotStuck ==
    (pc["mon"] \notin {"none", "m_done"}
       /\ ~(pc["mon"] = "gen_read" /\ sequence_counter >= MaxSeq))
        => ENABLED (Monitor \/ Common("mon"))

\* C16: the monitor loop ends only at its loop test with monitor_active
\* cleared; every step of a tick, failed or not, takes the tick strictly
\* further towards the loop test, an exception of the queued send leads to
\* the loop test, the tick always has a step it can take, and with
\* monitor_active set the loop test starts the next tick.
C16_MonitorSurvivesFailures == []C16_NotStuck /\ [][C16_Step]_vars

C16_Witness ==
    /\ pc["mon"] = "creg" /\ stack["mon"] = <<"m_health">>
    /\ sequence_counter > 0 /\ pc["fg"] \in {"cyc_ret", "cyc_end"}
    /\ monitor_active /\ ~tcp_connected

\* the session start was given up because the port did not open: cleanup is
\* running on a port that is not open (a port that opened is only closed by
\* the last step of cleanup)
FailedOpen == pc["fg"] \in {"cl_start", "cl_join", "cl_tcp", "cl_close", "cl_ser"} /\ ~ser_open

C17_State ==
    FailedOpen =>
        /\ pc["fg"] \in {"cl_start", "cl_tcp", "cl_ser"}
        /\ xch = [t \in Threads |-> "idle"]
        /\ sm_i = 0 /\ net_attempt = 0 /\ tcp_attempt["fg"] = 0 /\ cycle = 0
        /\ ~is_connected /\ ~pdp_context_active /\ ~tcp_connected
        /\ ~monitor_active /\ ~monitor_thread /\ pc["mon"] = "none"
        /\ data_queue = <<>> /\ sequence_counter = 0 /\ issued = <<>>
        /\ call = [t \in Threads |-> NoCall]
        /\ transmission_stats = NoHistory
        /\ channel_state = [quality_score |-> 0, signal_strength |-> 0]

C17_Step ==
    /\ (pc["fg"] = "main" /\ FgStep)
          => \/ ser_open' /\ pc'["fg"] = "at"
             \/ ~ser_open' /\ pc'["fg"] = "cl_start" /\ UNCHANGED xch
    /\ (FailedOpen /\ FgStep) => (FailedOpen' \/ pc'["fg"] = "done") /\ UNCHANGED xch

\* C17: when the port does not open, the open is not tried again and the
\* session start ends at once: from then to the end of cleanup no command is
\* written, no lifecycle stage has run (no module query, no attach attempt,
\* no connect attempt, no flag set), no monitor thread exists and no record
\* was created, queued or sent.
C17_OpenFailureAborts == []C17_State /\ [][C17_Step]_vars

C17_Witness == FailedOpen /\ pc["fg"] = "cl_ser"

\* the thread's call of generate_data_packet ends in the exception
BuildFails(t) == pc[t] = "gen_store" /\ pc'[t] # "gen_store"

C18_Step ==
    /\ (BuildFails("fg") /\ cycle < cycles) => pc'["fg"] \in {"cyc_ret", "cyc_end", "cyc_begin"}
    /\ BuildFails("mon") => pc'["mon"] = "m_loop" /\ UNCHANGED mon_vars
    /\ (BuildFails("fg") \/ BuildFails("mon")) => UNCHANGED <<conn, transmission_stats>>

\* C18: when the packet build of a record fails, the foreground stays in its
\* cycle loop as long as cycles remain, the monitor goes back to its loop
\* test with monitoring still on, and the connection flags and the
\* transmission statistics are as before the build.
C18_BuildFailureIsLocal == [][C18_Step]_vars

C19_State ==
    /\ at.writes <= 1 /\ at.elapsed <= at.timeout
    /\ pc["fg"] = "raw_wait" => at.writes = 1 /\ ~at.marker /\ at.response = "none"
    /\ pc["fg"] = "raw_done"
          => /\ at.response \in {"text", "empty"}
             /\ ~ser_open => at.writes = 0 /\ at.response = "empty" /\ at.elapsed = 0
             /\ ser_open => at.writes = 1
             /\ at.response = "text" => at.marker \/ at.elapsed >= at.timeout

C19_Step ==
    /\ pc["fg"] = "raw_wait"
          => /\ at'.writes = at.writes
             /\ pc'["fg"] = "raw_wait" => at'.elapsed = at.elapsed + 1 /\ at.elapsed < at.timeout
             /\ pc'["fg"] \in {"raw_wait", "raw_done"}
    /\ (pc["fg"] = "raw" /\ ~ser_open) => pc'["fg"] = "raw_done" /\ at'.writes = 0

C19_NotStuck ==
    (pc["fg"] = "raw_wait" \/ (pc["fg"] = "raw" /\ at.n < MaxCalls)) => ENABLED NextAt

\* C19: a send_at_command_raw call writes the command once when the port is
\* open and never again; each pass of its wait adds to the elapsed time, which
\* never passes the timeout, and the wait always has a step to take; the call
\* returns text only after a terminal marker or at the timeout; on a port
\* that is not open it writes nothing and returns the empty reply at once.
C19_ExchangeTerminates == []C19_State /\ []C19_NotStuck /\ [][C19_Step]_vars

C19_Witness ==
    /\ pc["fg"] = "raw_done" /\ ser_open /\ at.n = 2
    /\ at.writes = 1 /\ at.response = "text" /\ ~at.marker
    /\ at.elapsed = at.timeout /\ at.timeout = MaxPolls

\* C20: two generate_data_packet calls with equal records and the same
\* sequence number produce identical packet bytes: both return a packet, and
\* the two packets, header and JSON text, are the same.
C20_DeterministicEncoding ==
    \A i, j \in 1..Len(built) :
        (i < j /\ built[i].data = built[j].data /\ built[i].sequence = built[j].sequence)
            => /\ built[i].packet # StructError /\ built[j].packet # StructError
               /\ built[i].packet = built[j].packet
               /\ built[i].json_data = built[j].json_data

\* json.loads of a text that json.dumps wrote: the dict of its members
Decoded(text) ==
    [k \in {text[i][1] : i \in 1..Len(text)} |->
        (CHOOSE p \in {text[i] : i \in 1..Len(text)} : p[1] = k)[2]]

\* C21: every generate_data_packet call gives a packet, and decoding the part
\* of the packet after the 8-byte header gives a record equal to the record
\* the packet was built from.
C21_PayloadRoundTrip ==
    \A i \in 1..Len(built) :
        /\ built[i].packet # StructError
        /\ Decoded(built[i].packet.body) = SensorRecord(built[i].data)

\* the lifecycle stage the foreground is in: 0 before the open, 1 the AT test,
\* 2 module configuration, 3 network attach, 4 logical connect, 5 monitor
\* start, 6 the cycles, 9 cleanup and after
Stage ==
    CASE pc["fg"] = "main" -> 0
      [] pc["fg"] = "at" -> 1
      [] pc["fg"] = "sm" -> 2
      [] pc["fg"] \in {"apn", "act", "deact", "react", "actq"} -> 3
      [] pc["fg"] = "tcp_ret" -> 4
      [] pc["fg"] \in {"tcp_close", "tcp_open"} /\ stack["fg"] = <<"tcp_ret">> -> 4
      [] pc["fg"] = "start_mon" -> 5
      [] pc["fg"] \in {"cl_start", "cl_join", "cl_tcp", "cl_close", "cl_ser", "done"} -> 9
      [] OTHER -> 6

C22_State ==
    /\ Stage <= 1 => xch["fg"] = "idle" \/ ser_open
    /\ Stage <= 2 => ~pdp_context_active
    /\ Stage <= 3 => ~is_connected /\ ~tcp_connected
    /\ Stage <= 5 => /\ pc["mon"] = "none" /\ ~monitor_thread /\ ~monitor_active
                      /\ cycle = 0 /\ data_queue = <<>> /\ issued = <<>>
                      /\ call = [t \in Threads |-> NoCall]
    /\ (pc["mon"] # "none" \/ monitor_thread \/ cycle > 0 \/ data_queue # <<>> \/ issued # <<>>)
          => (is_connected /\ pdp_context_active /\ ser_open) \/ pc["fg"] = "done"

C22_Step ==
    (FgStep /\ Stage < 9) =>
        /\ Stage' \in {Stage, Stage + 1, 9}
        /\ Stage = 0 => (Stage' = 1 <=> ser_open')
        /\ Stage = 2 => Stage' # 9
        /\ (Stage = 3 /\ Stage' = 4) => pc["fg"] = "actq" /\ is_connected' /\ pdp_context_active'
        /\ (Stage = 3 /\ Stage' = 9) => ~is_connected' /\ net_attempt = 2
        /\ (Stage = 4 /\ Stage' = 5) => tcp_connected /\ ret["fg"]
        /\ (Stage = 4 /\ Stage' = 9) => ~tcp_connected /\ ~ret["fg"] /\ pc["fg"] = "tcp_ret"
        /\ (Stage = 5 /\ Stage' = 6) => monitor_active' /\ monitor_thread' /\ pc'["mon"] = "m_loop"
        /\ Stage # 5 => UNCHANGED mon_vars /\ pc'["mon"] = pc["mon"]

\* C22: the session start goes through open, AT test, module configuration,
\* network attach and logical connect in this order, one stage at a time; a
\* failed stage leads to cleanup and to no later stage, except module
\* configuration, which never ends the start; the monitor thread is started,
\* and records are made, queued or sent, only after establish_tcp_connection
\* has returned True.
C22_LifecycleOrder == []C22_State /\ [][C22_Step]_vars

C22_Witness ==
    /\ pc["fg"] = "cyc_begin" /\ cycle = 0 /\ pc["mon"] = "m_loop"
    /\ monitor_thread /\ tcp_connected /\ is_connected /\ pdp_context_active /\ ser_open
    /\ channel_state.signal_strength = 0

InAttach == pc["fg"] \in {"apn", "act", "deact", "react", "actq"}

C23_State ==
    /\ net_attempt \in 0..2
    /\ ~InAttach => net_attempt = 0
    /\ is_connected => pdp_context_active

C23_Step ==
    /\ (FgStep /\ InAttach /\ pc'["fg"] # pc["fg"]) =>
        /\ pc["fg"] = "apn" => pc'["fg"] = "act" /\ UNCHANGED net_attempt
        /\ pc["fg"] = "act" => /\ pc'["fg"] \in {"actq", "deact"} /\ UNCHANGED net_attempt
                               /\ pc'["fg"] = "actq" => pdp_context_active'
        /\ pc["fg"] = "deact" => pc'["fg"] = "react" /\ UNCHANGED net_attempt
        /\ pc["fg"] = "react" /\ pc'["fg"] = "actq" => pdp_context_active' /\ UNCHANGED net_attempt
        /\ pc["fg"] \in {"react", "actq"} /\ pc'["fg"] # "actq" =>
              \/ pc'["fg"] = "apn" /\ net_attempt < 2 /\ net_attempt' = net_attempt + 1
                    /\ UNCHANGED is_connected
              \/ pc'["fg"] = "cl_start" /\ net_attempt = 2 /\ ~is_connected'
              \/ pc["fg"] = "actq" /\ pc'["fg"] = "tcp_close" /\ is_connected'
    /\ is_connected' # is_connected =>
          pc["fg"] = "actq" /\ Answered("fg") /\ is_connected' /\ pc'["fg"] = "tcp_close"

InEstablish(t) == pc[t] \in {"tcp_close", "tcp_open"}

C24_State ==
    \A t \in Threads :
        /\ tcp_attempt[t] \in 0..2
        /\ InEstablish(t) => wait_time[t] = tcp_attempt[t] * 5
        /\ ~InEstablish(t) => tcp_attempt[t] = 0 /\ wait_time[t] = 0

C24_Step ==
    /\ \A t \in Threads :
        /\ (pc'[t] = "tcp_open" /\ pc[t] # "tcp_open") =>
               /\ pc[t] = "tcp_close" /\ xch[t] # "idle"
               /\ tcp_attempt'[t] = tcp_attempt[t]
        /\ (pc[t] = "tcp_open" /\ pc'[t] # "tcp_open") =>
               /\ xch[t] # "idle"
               /\ \/ /\ pc'[t] = "tcp_close" /\ ~ret'[t]
                     /\ tcp_attempt[t] < 2 /\ tcp_attempt'[t] = tcp_attempt[t] + 1
                     /\ wait_time'[t] = (tcp_attempt[t] + 1) * 5
                     /\ UNCHANGED tcp_connected
                  \/ /\ pc'[t] = Head(stack[t]) /\ ~ret'[t]
                     /\ tcp_attempt[t] = 2
                     /\ UNCHANGED tcp_connected
                  \/ /\ pc'[t] = Head(stack[t]) /\ ret'[t]
                     /\ Answered(t) /\ tcp_connected'
    /\ (tcp_connected' /\ ~tcp_connected) =>
           \E t \in Threads : pc[t] = "tcp_open" /\ Answered(t) /\ ret'[t] /\ pc'[t] = Head(stack[t])

\* C24: establish_tcp_connection makes at most three attempts; AT+QIOPEN is
\* sent only after the AT+QICLOSE of the same attempt; the sleep before
\* attempt n+1 is n*5 seconds (5 before the second, 10 before the third);
\* tcp_connected becomes true only in a step that reads an accepted open
\* reply; and after the third failed attempt the function returns False and
\* leaves tcp_connected as it was.
C24_ConnectAttempts == []C24_State /\ [][C24_Step]_vars

\* the third attempt, after the sleeps of 5 and 10 seconds, has sent its open
C24_Witness ==
    /\ pc["fg"] = "tcp_open" /\ xch["fg"] = "sent" /\ stack["fg"] = <<"tcp_ret">>
    /\ tcp_attempt["fg"] = 2 /\ wait_time["fg"] = 10 /\ ~tcp_connected

\* the max_retries of the preset the claim names for a tier
TierRetries(stability) ==
    CASE stability = "excellent" -> 3
      [] stability = "good" -> 5
      [] stability = "fair" -> 8
      [] OTHER -> 10

C25_Step ==
    \A t \in Threads :
        (pc[t] = "ssd_check" /\ pc'[t] = "gen_read") =>
            transmission_config'.max_retries = TierRetries(quality_report[t].stability)

\* C25: when send_sensor_data has chosen the profile for a send, the profile
\* in effect is the preset of the tier that the assessment of the same call
\* put into its report: max_retries 3 for excellent, 5 for good, 8 for fair,
\* 10 for poor.
C25_ProfileMatchesTier == [][C25_Step]_vars

C26_Step ==
    sdp'.attempt = sdp.attempt + 1 =>
        sdp'.wait_time = transmission_config.retry_delay * (sdp.attempt + 1)

\* C26: in send_data_packet, after every failed attempt i (counted from 1)
\* that is not the last, a sleep of retry_delay * i comes before attempt
\* i + 1, also when attempt i failed because establish_tcp_connection
\* returned False.
C26_BackoffAfterEveryFailure == [][C26_Step]_vars

C27_Step ==
    /\ (pc["fg"] = "qisend" /\ xch["fg"] = "idle" /\ xch'["fg"] = "sent") => tcp_connected
    /\ (pc["fg"] = "pkt_write" /\ pc'["fg"] = "qistatus") => tcp_connected

\* C27: the command AT+QISEND=id,len and the packet bytes are written to the
\* port only while tcp_connected is true, whatever the monitor thread does
\* between the steps of send_data_packet.
C27_SendOnlyWhileConnected == [][C27_Step]_vars

C28_State ==
    /\ (pc["mon"] \notin {"none", "m_done"} /\ monitor_active) => is_connected
    /\ pc["mon"] \in {"m_loop", "m_health", "hc_act", "hc_state", "rc_close", "m_queue"}
          => ENABLED (Monitor \/ SendAtCommandRaw("mon"))

C28_Step ==
    /\ MonitorStep =>
        /\ (InRecovery /\ pc'["mon"] = "m_queue" /\ ~ret'["mon"])
              => /\ tcp_attempt["mon"] = 2 /\ ~tcp_connected'
                 /\ UNCHANGED <<mon_vars, ser_open, is_connected, pdp_context_active>>
        /\ (InRecovery /\ pc'["mon"] = "m_queue" /\ ret'["mon"]) => tcp_connected'
        /\ pc["mon"] = "m_queue" => pc'["mon"] \in {"m_loop", "csq"}
        /\ (pc["mon"] = "m_loop" /\ monitor_active)
              => pc'["mon"] = "csq" /\ stack'["mon"] = <<"m_health">>
        /\ (pc["mon"] = "cgatt" /\ stack["mon"] = <<"m_health">>) => pc'["mon"] \in {"cgatt", "m_health"}
        /\ pc["mon"] = "m_health" => pc'["mon"] = (IF is_connected THEN "hc_act" ELSE "m_queue")
        /\ pc["mon"] = "hc_act" => pc'["mon"] \in {"hc_act", "hc_state", "rc_close"}
        /\ pc["mon"] = "hc_state" => pc'["mon"] \in {"hc_state", "m_queue", "rc_close"}
        /\ pc["mon"] = "rc_close" => pc'["mon"] \in {"rc_close", "tcp_close"}
    /\ (tcp_connected' /\ ~tcp_connected) =>
          \E t \in Threads : pc[t] = "tcp_open" /\ Answered(t) /\ ret'[t]

\* C28: a recover_connection that returns False changes nothing but leaves
\* tcp_connected false, and the monitor goes on with its tick and, while
\* monitor_active is set, with the next one; every tick runs the health
\* check, because is_connected stays set, and every failed health check is
\* followed by recover_connection, whatever earlier recoveries returned;
\* tcp_connected turns true again only when an open is accepted, and a
\* recovery that returns True has set it.
C28_FailedRecoveryIsRetried == []C28_State /\ [][C28_Step]_vars

\* a recovery starts in a tick after one that failed
C28_Witness ==
    /\ pc["mon"] = "rc_close" /\ xch["mon"] = "sent"
    /\ ~tcp_connected /\ monitor_active /\ is_connected

\* the AT+CSQ response just read by the foreground is a line "+CSQ: r,b"
\* followed by OK
C30_WellFormed ==
    /\ pc["fg"] = "creg"
    /\ Len(seen["fg"].csq) = 2
    /\ seen["fg"].csq[1].kind = "+CSQ:"
    /\ seen["fg"].csq[2].kind = "OK"

\* C30: after a well-formed AT+CSQ reply, "+CSQ: r,b" followed by OK, the
\* level r is in channel_state and in the report, and the report's signal
\* quality is the whole part of r/31*100, 0 for r = 99.
C30_WellFormedCsqIsRecorded ==
    C30_WellFormed =>
        LET r == seen["fg"].csq[1].a
            q == quality_report["fg"].signal_quality
        IN /\ channel_state.signal_strength = r
           /\ quality_report["fg"].signal_strength = r
           /\ IF r = 99 THEN q = 0 ELSE 31 * q <= 100 * r /\ 100 * r < 31 * (q + 1)

\* the foreground reads an AT+CSQ response that cannot be parsed, in an
\* assessment that is not its first
C29_UnparsedCsq ==
    /\ pc["fg"] = "csq" /\ pc'["fg"] = "creg"
    /\ seen["fg"].prev # NoReport
    /\ \/ ~Has(seen'["fg"].csq, "+CSQ:")
       \/ ParseCsq(seen'["fg"].csq) = ValueError

C29_Step ==
    C29_UnparsedCsq =>
        /\ quality_report'["fg"].signal_strength = seen["fg"].prev.signal_strength
        /\ quality_report'["fg"].signal_quality = seen["fg"].prev.signal_quality

\* C29: when the AT+CSQ reply of an assessment cannot be parsed, the signal
\* level and the signal quality of its report are those of the report of the
\* previous assessment.
C29_UnparsedKeepsPrevious == [][C29_Step]_vars

\* C31: between send_data_packet calls, once a packet has been attempted,
\* the stored success_rate is 100 * successful_packets / total_packets: it
\* is recomputed after a failed send as well as after a successful one.
C31_SuccessRateIsCurrent ==
    (pc["fg"] = "api" /\ transmission_stats.total_packets > 0)
        => transmission_stats.success_rate[1] * transmission_stats.total_packets
             = transmission_stats.successful_packets * transmission_stats.success_rate[2]

\* C32: in every reachable state total_packets equals successful_packets +
\* failed_packets, with the monitor loop running next to the sender.
C32_CountsAddUp ==
    transmission_stats.total_packets
        = transmission_stats.successful_packets + transmission_stats.failed_packets

\* the monitor thread writes a command to the port
MonitorWrites == xch["mon"] # "sent" /\ xch'["mon"] = "sent"

\* the monitor thread takes an item from the queue
MonitorDequeues == pc["mon"] = "m_queue" /\ data_queue # <<>> /\ data_queue' = Tail(data_queue)

C33_Step == pc["fg"] = "done" => ~MonitorWrites /\ ~MonitorDequeues

\* C33: once cleanup has returned, the monitor loop writes no command to the
\* port and takes no item from the queue.
C33_MonitorQuietAfterCleanup == [][C33_Step]_vars

\* the thread is in the close-then-open sequence: in recover_connection's
\* close or inside establish_tcp_connection
InReconnect(t) == InEstablish(t) \/ (t = "mon" /\ pc["mon"] = "rc_close")

\* the thread writes the AT+QICLOSE of establish_tcp_connection (line 400)
StaleClose(t) == pc[t] = "tcp_close" /\ xch[t] = "idle" /\ xch'[t] = "sent"

C34_Step ==
    /\ ~(InReconnect("fg")' /\ InReconnect("mon")')
    /\ \A t \in Threads : StaleClose(t) => ~tcp_connected

\* C34: the close-then-open sequence is never run by the foreground and the
\* monitor at once, and the close of establish_tcp_connection is never
\* written while the connection is marked connected.
C34_OneReconnectAtATime == [][C34_Step]_vars

\* the monitor's send of a dequeued record has ended, and both the tick's
\* assessment and the send's own gave a score above 50
C35_Case ==
    /\ pc["mon"] = "m_loop" /\ tick.removed = 1 /\ call["mon"].outcome # "none"
    /\ tick.above50 /\ channel_state.quality_score > 50

\* C35, as far as a finite run shows it: a record that the monitor took from
\* the queue under scores above 50, with no packet send failing, has been
\* delivered when its send ends, or is on the queue, or is still held by the
\* foreground cycle that created it; otherwise it can never be delivered.
C35_DequeuedRecordIsDelivered ==
    C35_Case => \/ transmission_stats.successful_packets > 0
                \/ Count(data_queue, call["mon"].data) >= 1
                \/ sensor_data["fg"] = call["mon"].data

\* the monitor_loop threads that have not ended
Running == {i \in 1..Len(loops) : loops[i] # "ended"}

\* C36: at most one monitor loop is running at any time, whatever the
\* sequence of start_channel_monitoring and cleanup calls.
C36_AtMostOneLoop == Cardinality(Running) <= 1

\* cleanup has cleared monitor_active of a session whose monitor was started
Stopped == ~monitor_active /\ monitor_thread

C37_Step ==
    Stopped =>
        /\ Stopped'
        /\ MonitorStep => TickRank' > TickRank
        /\ ~MonitorStep => TickRank' = TickRank
        /\ (MonitorStep /\ pc["mon"] = "m_loop") => pc'["mon"] = "m_done"
        /\ pc'["mon"] = "csq" => pc["mon"] = "csq" \/ pc["mon"] = "m_queue"
        /\ pc["mon"] = "m_done" => pc'["mon"] = "m_done"

C37_NotStuck ==
    (Stopped /\ pc["mon"] # "m_done"
       /\ ~(pc["mon"] = "gen_read" /\ sequence_counter >= MaxSeq))
        => ENABLED (Monitor \/ Common("mon"))

\* C37: once cleanup has cleared monitor_active, the flag stays cleared, the
\* monitor always has a step it can take until it has ended, every step it
\* takes brings the tick in progress strictly nearer to the loop test, no
\* step of the foreground sets it back, the loop test ends the loop, and no
\* new tick is started.
C37_LoopEndsAfterStop == []C37_NotStuck /\ [][C37_Step]_vars

C37_Witness ==
    /\ pc["mon"] = "m_done" /\ Stopped
    /\ pc["fg"] = "done" /\ ~ser_open /\ data_queue # <<>>

C38_State ==
    /\ tcp_connected => is_connected
    /\ is_connected => pdp_context_active

C38_Step ==
    /\ (~pdp_context_active /\ pdp_context_active') => pc["fg"] \in {"act", "react"}
    /\ (~is_connected /\ is_connected') => pdp_context_active /\ pc["fg"] = "actq"
    /\ (~tcp_connected /\ tcp_connected')
          => /\ is_connected /\ pdp_context_active
             /\ \E t \in Threads : pc[t] = "tcp_open" /\ pc'[t] # "tcp_open"
    /\ is_connected => is_connected'
    /\ pdp_context_active => pdp_context_active'

\* C38: in the program main runs, with its monitor loop, tcp_connected
\* implies is_connected and is_connected implies pdp_context_active in every
\* state; each flag is set only by its own stage and only while the flags of
\* the stages before it are set, and the two earlier flags are never cleared.
C38_FlagsNested == []C38_State /\ [][C38_Step]_vars

C38_Witness ==
    /\ pc["fg"] = "start_mon" /\ net_attempt = 0
    /\ tcp_connected /\ is_connected /\ pdp_context_active

====
